---------------------------- MODULE Spec2Model ----------------------------
(***************************************************************************)
(* Podcast question answering (lib/ai.ts): the process-wide corpus state,  *)
(* its two initialisation passes (initialize, initializeEnhanced), the two *)
(* retrieval pipelines (findRelevantChunks, performMultiStageRetrieval)    *)
(* and the public calls generateResponse, generateEnhancedResponse and     *)
(* getSystemStatus, run by overlapping callers on one JavaScript event     *)
(* loop.                                                                   *)
(*                                                                         *)
(* Text is a sequence of one-character strings.  Scores are integers:      *)
(* similarities and lexical scores in thousandths, the composite           *)
(* relevance in ten-thousandths.  Query words are plain letters, so a word *)
(* used as a regular expression matches exactly its own occurrences.       *)
(***************************************************************************)
EXTENDS Integers, Sequences, FiniteSets, TLC

\* ------------------------------------------------------------------ text

NULL == "null"

Whitespace == {" ", "\n", "\t"}

UpperCase == <<"A","B","C","D","E","F","G","H","I","J","K","L","M",
               "N","O","P","Q","R","S","T","U","V","W","X","Y","Z">>
LowerCase == <<"a","b","c","d","e","f","g","h","i","j","k","l","m",
               "n","o","p","q","r","s","t","u","v","w","x","y","z">>

UpperSet == {UpperCase[i] : i \in 1..26}
LowerSet == {LowerCase[i] : i \in 1..26}

IsUpper(c) == c \in UpperSet
IsLower(c) == c \in LowerSet

LowerChar(c) ==
  IF IsUpper(c) THEN LowerCase[CHOOSE i \in 1..26 : UpperCase[i] = c] ELSE c

\* a function on 1..n as a sequence of length n
AsSeq(f, n) == SubSeq(f, 1, n)

\* String.prototype.toLowerCase
toLowerCase(s) == AsSeq([i \in 1..Len(s) |-> LowerChar(s[i])], Len(s))

\* String.prototype.slice(from, to) with 0-based, non-negative, clamped ends
Slice(s, from, to) ==
  LET t == IF to > Len(s) THEN Len(s) ELSE to
  IN  IF from >= t THEN <<>> ELSE SubSeq(s, from + 1, t)

\* String.prototype.slice(-n): the last n characters
SliceLast(s, n) == IF Len(s) <= n THEN s ELSE SubSeq(s, Len(s) - n + 1, Len(s))

\* String.prototype.trim
trim(s) ==
  LET keep == {i \in 1..Len(s) : s[i] \notin Whitespace}
  IN  IF keep = {} THEN <<>>
      ELSE SubSeq(s, CHOOSE i \in keep : \A j \in keep : i <= j,
                     CHOOSE i \in keep : \A j \in keep : i >= j)

\* whether sub occurs in s at (1-based) position i
MatchAt(s, sub, i) ==
  /\ i + Len(sub) - 1 <= Len(s)
  /\ \A k \in 1..Len(sub) : s[i + k - 1] = sub[k]

\* String.prototype.includes
includes(s, sub) == \E i \in 1..(Len(s) + 1) : MatchAt(s, sub, i)

\* (s.match(new RegExp(word, 'g')) || []).length for a word of plain letters:
\* the occurrences of word in s, scanned left to right without overlap (the
\* leftmost occurrence, then the leftmost one that starts after its end, ...)
RECURSIVE CountGreedy(_, _)
CountGreedy(starts, width) ==
  IF starts = {} THEN 0
  ELSE LET first == CHOOSE i \in starts : \A j \in starts : i <= j
       IN  1 + CountGreedy({j \in starts : j >= first + width}, width)

matchCount(s, word) ==
  IF Len(word) = 0 THEN 0
  ELSE CountGreedy({i \in 1..Len(s) : MatchAt(s, word, i)}, Len(word))

\* String.prototype.split(/[...]+/) for a class of characters: the pieces
\* between the maximal runs of characters of the class; a run at either end
\* of s leaves an empty piece at that end
RECURSIVE SplitAtRuns(_, _, _, _)
SplitAtRuns(s, class, runStarts, from) ==
  LET ahead == {i \in runStarts : i >= from}
  IN  IF ahead = {} THEN <<SubSeq(s, from, Len(s))>>
      ELSE LET start == CHOOSE i \in ahead : \A j \in ahead : i <= j
               end == CHOOSE e \in start..Len(s) :
                        /\ \A k \in start..e : s[k] \in class
                        /\ (e = Len(s) \/ s[e + 1] \notin class)
           IN  <<SubSeq(s, from, start - 1)>> \o SplitAtRuns(s, class, runStarts, end + 1)

splitOnRuns(s, class) ==
  SplitAtRuns(s, class,
              {i \in 1..Len(s) : s[i] \in class /\ (i = 1 \/ s[i - 1] \notin class)}, 1)

\* String.prototype.split(/\s+/)
splitWhitespace(s) == splitOnRuns(s, Whitespace)

\* Array.prototype.filter
Filter(seq, Keep(_)) ==
  LET F[i \in 0..Len(seq)] ==
        IF i = 0 THEN <<>>
        ELSE IF Keep(seq[i]) THEN Append(F[i - 1], seq[i]) ELSE F[i - 1]
  IN  F[Len(seq)]

\* query.toLowerCase().split(/\s+/).filter(word => word.length > 2)
LongWord(w) == Len(w) > 2
queryWordsOf(query) == Filter(splitWhitespace(toLowerCase(query)), LongWord)

RECURSIVE SumSeq(_)
SumSeq(seq) == IF seq = <<>> THEN 0 ELSE Head(seq) + SumSeq(Tail(seq))

Min(a, b) == IF a <= b THEN a ELSE b

\* Array.prototype.sort((a, b) => b.score - a.score): stable, descending.
\* Each element is inserted after every earlier element whose score is not
\* smaller, so equal scores keep the order of the input.
InsertDesc(sorted, x, Score(_)) ==
  LET k == Cardinality({j \in 1..Len(sorted) : Score(sorted[j]) >= Score(x)})
  IN  SubSeq(sorted, 1, k) \o <<x>> \o SubSeq(sorted, k + 1, Len(sorted))

SortDesc(seq, Score(_)) ==
  LET S[i \in 0..Len(seq)] ==
        IF i = 0 THEN <<>> ELSE InsertDesc(S[i - 1], seq[i], Score)
  IN  S[Len(seq)]

\* Array.prototype.slice(0, n)
Take(seq, n) == SubSeq(seq, 1, Min(n, Len(seq)))

\* ----------------------------------------------------------- environment

\* process.env.GROQ_API_KEY / OPENAI_API_KEY are read once at module load;
\* the model keeps whether each is set (variables groqKey, openaiKey).

\* The files of public/transcripts.  A directory entry is its base name and
\* its extension: endsWith('.txt') is ext = "txt", and
\* filename.replace('.txt', '') is base.
File(base, ext) == [base |-> base, ext |-> ext]

\* 'Nikhil: Startup founders need funding from early investors.\n\nGaming studios build mobile games for players everywhere.'
Content_ep1 == <<
    "N","i","k","h","i","l",":"," ","S","t","a","r","t","u","p"," ","f","o",
    "u","n","d","e","r","s"," ","n","e","e","d"," ","f","u","n","d","i","n",
    "g"," ","f","r","o","m"," ","e","a","r","l","y"," ","i","n","v","e","s",
    "t","o","r","s",".","\n","\n","G","a","m","i","n","g"," ","s","t","u","d",
    "i","o","s"," ","b","u","i","l","d"," ","m","o","b","i","l","e"," ","g",
    "a","m","e","s"," ","f","o","r"," ","p","l","a","y","e","r","s"," ","e",
    "v","e","r","y","w","h","e","r","e",".">>

\* 'Startup founders need funding from early investors and a strong pitch to raise capital for the company.'
Content_b1 == <<
    "S","t","a","r","t","u","p"," ","f","o","u","n","d","e","r","s"," ","n",
    "e","e","d"," ","f","u","n","d","i","n","g"," ","f","r","o","m"," ","e",
    "a","r","l","y"," ","i","n","v","e","s","t","o","r","s"," ","a","n","d",
    " ","a"," ","s","t","r","o","n","g"," ","p","i","t","c","h"," ","t","o",
    " ","r","a","i","s","e"," ","c","a","p","i","t","a","l"," ","f","o","r",
    " ","t","h","e"," ","c","o","m","p","a","n","y",".">>

\* 'Property builders discuss housing demand and apartment rent and also construction costs in large cities.'
Content_b2 == <<
    "P","r","o","p","e","r","t","y"," ","b","u","i","l","d","e","r","s"," ",
    "d","i","s","c","u","s","s"," ","h","o","u","s","i","n","g"," ","d","e",
    "m","a","n","d"," ","a","n","d"," ","a","p","a","r","t","m","e","n","t",
    " ","r","e","n","t"," ","a","n","d"," ","a","l","s","o"," ","c","o","n",
    "s","t","r","u","c","t","i","o","n"," ","c","o","s","t","s"," ","i","n",
    " ","l","a","r","g","e"," ","c","i","t","i","e","s",".">>

\* 'Gaming studios build mobile games for players while esports teams grow a loyal audience across India.'
Content_b3 == <<
    "G","a","m","i","n","g"," ","s","t","u","d","i","o","s"," ","b","u","i",
    "l","d"," ","m","o","b","i","l","e"," ","g","a","m","e","s"," ","f","o",
    "r"," ","p","l","a","y","e","r","s"," ","w","h","i","l","e"," ","e","s",
    "p","o","r","t","s"," ","t","e","a","m","s"," ","g","r","o","w"," ","a",
    " ","l","o","y","a","l"," ","a","u","d","i","e","n","c","e"," ","a","c",
    "r","o","s","s"," ","I","n","d","i","a",".">>

\* 'Restaurant owners talk about kitchen costs and dining habits and how delivery apps changed their margins.'
Content_b4 == <<
    "R","e","s","t","a","u","r","a","n","t"," ","o","w","n","e","r","s"," ",
    "t","a","l","k"," ","a","b","o","u","t"," ","k","i","t","c","h","e","n",
    " ","c","o","s","t","s"," ","a","n","d"," ","d","i","n","i","n","g"," ",
    "h","a","b","i","t","s"," ","a","n","d"," ","h","o","w"," ","d","e","l",
    "i","v","e","r","y"," ","a","p","p","s"," ","c","h","a","n","g","e","d",
    " ","t","h","e","i","r"," ","m","a","r","g","i","n","s",".">>

\* 'Doctors explain how telemedicine and hospital networks bring medical help to small towns and villages.'
Content_b5 == <<
    "D","o","c","t","o","r","s"," ","e","x","p","l","a","i","n"," ","h","o",
    "w"," ","t","e","l","e","m","e","d","i","c","i","n","e"," ","a","n","d",
    " ","h","o","s","p","i","t","a","l"," ","n","e","t","w","o","r","k","s",
    " ","b","r","i","n","g"," ","m","e","d","i","c","a","l"," ","h","e","l",
    "p"," ","t","o"," ","s","m","a","l","l"," ","t","o","w","n","s"," ","a",
    "n","d"," ","v","i","l","l","a","g","e","s",".">>

\* 'Marketing teams shape a brand through social media and influencer partnerships and steady storytelling.'
Content_b6 == <<
    "M","a","r","k","e","t","i","n","g"," ","t","e","a","m","s"," ","s","h",
    "a","p","e"," ","a"," ","b","r","a","n","d"," ","t","h","r","o","u","g",
    "h"," ","s","o","c","i","a","l"," ","m","e","d","i","a"," ","a","n","d",
    " ","i","n","f","l","u","e","n","c","e","r"," ","p","a","r","t","n","e",
    "r","s","h","i","p","s"," ","a","n","d"," ","s","t","e","a","d","y"," ",
    "s","t","o","r","y","t","e","l","l","i","n","g",".">>


\* 'funding rounds close faster when funding partners trust the team.\n\nPeople who build products often dream about a startup and then another startup'
Content_tie == <<
    "f","u","n","d","i","n","g"," ","r","o","u","n","d","s"," ","c","l","o",
    "s","e"," ","f","a","s","t","e","r"," ","w","h","e","n"," ","f","u","n",
    "d","i","n","g"," ","p","a","r","t","n","e","r","s"," ","t","r","u","s",
    "t"," ","t","h","e"," ","t","e","a","m",".","\n","\n","P","e","o","p",
    "l","e"," ","w","h","o"," ","b","u","i","l","d"," ","p","r","o","d","u",
    "c","t","s"," ","o","f","t","e","n"," ","d","r","e","a","m"," ","a","b",
    "o","u","t"," ","a"," ","s","t","a","r","t","u","p"," ","a","n","d"," ",
    "t","h","e","n"," ","a","n","o","t","h","e","r"," ","s","t","a","r","t",
    "u","p">>

\* 'volleyball players train after school while basketball teams share the hall.\n\nvolleyball coaches and basketball coaches plan the season together every year.'
Content_edge == <<
    "v","o","l","l","e","y","b","a","l","l"," ","p","l","a","y","e","r","s",
    " ","t","r","a","i","n"," ","a","f","t","e","r"," ","s","c","h","o","o",
    "l"," ","w","h","i","l","e"," ","b","a","s","k","e","t","b","a","l","l",
    " ","t","e","a","m","s"," ","s","h","a","r","e"," ","t","h","e"," ","h",
    "a","l","l",".","\n","\n","v","o","l","l","e","y","b","a","l","l"," ",
    "c","o","a","c","h","e","s"," ","a","n","d"," ","b","a","s","k","e","t",
    "b","a","l","l"," ","c","o","a","c","h","e","s"," ","p","l","a","n"," ",
    "t","h","e"," ","s","e","a","s","o","n"," ","t","o","g","e","t","h","e",
    "r"," ","e","v","e","r","y"," ","y","e","a","r",".">>

\* 'Nikhil: Founders need funding from early investors.'
Content_short == <<
    "N","i","k","h","i","l",":"," ","F","o","u","n","d","e","r","s"," ","n",
    "e","e","d"," ","f","u","n","d","i","n","g"," ","f","r","o","m"," ","e",
    "a","r","l","y"," ","i","n","v","e","s","t","o","r","s",".">>

\* 'talk talk talk ... talk ': one paragraph of 805 characters without a
\* full stop, question mark or exclamation mark
Content_long == AsSeq([k \in 1..805 |-> <<"t","a","l","k"," ">>[((k - 1) % 5) + 1]], 805)

\* 'Ed: ok\ntalk talk ... talk': a speaker's turn of two lines, 61 characters
Section_turn ==
  <<"E","d",":"," ","o","k","\n">>
    \o AsSeq([k \in 1..54 |-> <<"t","a","l","k"," ">>[((k - 1) % 5) + 1]], 54)

\* 'talk talk ... talk': a paragraph of 54 characters
Section_plain == AsSeq([k \in 1..54 |-> <<"t","a","l","k"," ">>[((k - 1) % 5) + 1]], 54)

\* 31 paragraphs, a blank line between them: 29 turns of Ed, then two plain
\* paragraphs
Content_many ==
  LET Turns[n \in 0..29] ==
        IF n = 0 THEN <<>> ELSE Turns[n - 1] \o Section_turn \o <<"\n","\n">>
  IN  Turns[29] \o Section_plain \o <<"\n","\n">> \o Section_plain

\* fs.readFile(filePath, 'utf-8') when it succeeds
FileContent(f) ==
  CASE f.base = "ep1" -> Content_ep1
    [] f.base = "b1" -> Content_b1
    [] f.base = "b2" -> Content_b2
    [] f.base = "b3" -> Content_b3
    [] f.base = "b4" -> Content_b4
    [] f.base = "b5" -> Content_b5
    [] f.base = "b6" -> Content_b6
    [] f.base = "tie" -> Content_tie
    [] f.base = "edge" -> Content_edge
    [] f.base = "short" -> Content_short
    [] f.base = "long" -> Content_long
    [] f.base = "many" -> Content_many
    [] OTHER -> <<>>

\* the directories a run may start with
DirEmpty == <<>>
DirSmall == <<File("ep1", "txt"), File("notes", "md")>>
DirBulk  == <<File("b1", "txt"), File("b2", "txt"), File("b3", "txt"),
              File("b4", "txt"), File("b5", "txt"), File("b6", "txt")>>

\* further files a directory may hold, one at a time
DirTie   == <<File("tie", "txt")>>
DirEdge  == <<File("edge", "txt")>>
DirShort == <<File("short", "txt")>>
DirLong  == <<File("long", "txt")>>

\* a directory of one long transcript
DirMany  == <<File("many", "txt")>>

\* a directory of two transcripts
DirPair  == <<File("ep1", "txt"), File("tie", "txt")>>

\* the queries a caller may pass
\* 'startup funding'
Q_FUNDING == <<"s","t","a","r","t","u","p"," ","f","u","n","d","i","n","g">>

\* 'xyzabc nonsense query'
Q_NONSENSE == <<"x","y","z","a","b","c"," ","n","o","n","s","e","n","s","e"," ","q","u","e","r","y">>

\* '  '
Q_BLANK == <<" "," ">>

Q_EMPTY == <<>>

QuerySeq == <<Q_EMPTY, Q_BLANK, Q_FUNDING, Q_NONSENSE>>
Queries == {QuerySeq[k] : k \in 1..Len(QuerySeq)}

\* further queries the scorers are applied to
\* 'basketball volleyball'
Q_SPORTS == <<"b","a","s","k","e","t","b","a","l","l"," ","v","o","l","l","e","y","b","a","l","l">>

\* 'ai'
Q_AI == <<"a","i">>

\* 'a to'
Q_A_TO == <<"a"," ","t","o">>

KnownQueries == QuerySeq \o <<Q_SPORTS, Q_AI, Q_A_TO>>

\* An embedding is absent (undefined) or one vector.
None == <<>>
Some(v) == <<v>>

\* what the embedding provider may answer with when it answers
Vectors == {<<1, 0>>, <<0, 1>>}

\* ------------------------------------------------- scoring, original system

\* Scores of similarity, cosineSimilarity and calculateKeywordRelevance are
\* kept in thousandths, rounded toward zero; the composite of
\* calculateEnhancedRelevance in ten-thousandths (a sum of thousandths with
\* the integer weights 4, 3, 2, 1).  NaN stands for the value 0 / 0, which
\* no comparison of the code finds greater than anything.
NaN == 0 - 1

\* floor of the square root
ISqrt(n) == CHOOSE r \in 0..1000 : r * r <= n /\ (r + 1) * (r + 1) > n

Dot(a, b) == SumSeq(AsSeq([i \in 1..Len(a) |-> a[i] * b[i]], Len(a)))

\* the quotient taken whatever the magnitude: 0 / 0 is NaN
quotientOf(dot, mag2) ==
  IF mag2 = 0 THEN NaN
  ELSE (IF dot < 0 THEN 0 - 1 ELSE 1) * ISqrt((dot * dot * 1000000) \div mag2)

\* dot / Math.sqrt(magA * magB) in thousandths; 0 for a magnitude of 0
CosineOf(dot, mag2) ==
  IF mag2 > 0
  THEN (IF dot < 0 THEN 0 - 1 ELSE 1) * ISqrt((dot * dot * 1000000) \div mag2)
  ELSE 0

Cosine(a, b) == CosineOf(Dot(a, b), Dot(a, a) * Dot(b, b))

\* similarity(a, b), a and b being embeddings (None for a missing one)
similarity(a, b) ==
  IF a = None \/ b = None \/ Len(a[1]) # Len(b[1]) THEN 0
  ELSE Cosine(a[1], b[1])

\* .map(chunk => ({ chunk, score: Score(chunk) }))
withScores(seq, Score(_)) ==
  AsSeq([k \in 1..Len(seq) |-> [chunk |-> seq[k], score |-> Score(seq[k])]], Len(seq))

\* results.map(r => r.chunk)
resultChunks(results) == AsSeq([k \in 1..Len(results) |-> results[k].chunk], Len(results))

\* every scored candidate above the floor, best first, none cut off
scoredAboveFloor(scored, floor, n) ==
  LET Passes(r) == r.score # NaN /\ r.score > floor
      ScoreOf(r) == r.score
  IN  SortDesc(Filter(scored, Passes), ScoreOf)

\* .filter(r => r.score > floor).sort((a, b) => b.score - a.score).slice(0, n)
topScored(scored, floor, n) ==
  LET Passes(r) == r.score # NaN /\ r.score > floor
      ScoreOf(r) == r.score
  IN  Take(SortDesc(Filter(scored, Passes), ScoreOf), n)

\* the score searchByKeywordsEnhanced gives a text for the words of a
\* query, doubled (the halving for low coverage then stays an integer)
keywordScoreFrom(matches, wholeQuery) ==
  LET matchedWords == Cardinality({k \in 1..Len(matches) : matches[k] > 0})
      score == SumSeq(matches) + (IF wholeQuery THEN 5 ELSE 0)
  IN  IF matchedWords * 10 < 3 * Len(matches) THEN score ELSE 2 * score

wordMatches(text, words) ==
  AsSeq([k \in 1..Len(words) |-> matchCount(text, words[k])], Len(words))

keywordScoreIn(text, words, queryLower) ==
  keywordScoreFrom(wordMatches(text, words), includes(text, queryLower))

keywordScore2(query, chunk) ==
  keywordScoreIn(toLowerCase(chunk.text), queryWordsOf(query), toLowerCase(query))

\* the fixed-width chunking loop of initialize for one file that was read:
\* the chunks it pushes, in order
pushFixedChunk(list, text, filename) ==
  IF Len(text) > 50
  THEN Append(list, [text |-> text, episode |-> filename.base,
                     index |-> Len(list), embedding |-> None])
  ELSE list

fixedChunks(content, filename) ==
  LET chunkSize == 500
      C[k \in 0..((Len(content) + chunkSize - 1) \div chunkSize)] ==
        IF k = 0 THEN <<>>
        ELSE pushFixedChunk(C[k - 1],
                            trim(Slice(content, (k - 1) * chunkSize, k * chunkSize)),
                            filename)
  IN  IF Len(trim(content)) < 100 THEN <<>>
      ELSE C[(Len(content) + chunkSize - 1) \div chunkSize]

\* The files hold fixed text: what the chunking loop makes of each file, and
\* every score of a query of the model against a chunk of a file, is worked
\* out once, here.
KnownFiles == DirSmall \o DirBulk \o DirTie \o DirEdge \o DirShort \o DirLong
                \o DirMany

Concat(seqs) ==
  LET C[k \in 0..Len(seqs)] == IF k = 0 THEN <<>> ELSE C[k - 1] \o seqs[k]
  IN  C[Len(seqs)]

FileIndex(file) == CHOOSE k \in 1..Len(KnownFiles) : KnownFiles[k] = file

FixedChunksTable ==
  AsSeq([k \in 1..Len(KnownFiles) |-> fixedChunks(FileContent(KnownFiles[k]), KnownFiles[k])],
        Len(KnownFiles))

fixedChunksOf(file) == FixedChunksTable[FileIndex(file)]

QueryIndex(query) == CHOOSE q \in 1..Len(KnownQueries) : KnownQueries[q] = query

QueryWordsTable ==
  AsSeq([q \in 1..Len(KnownQueries) |-> queryWordsOf(KnownQueries[q])], Len(KnownQueries))

queryWords(query) == QueryWordsTable[QueryIndex(query)]

\* a unit of a file is known by its episode and its index
unitKey(c) == <<c.episode, c.index>>

keywordScoreRow(query, known) ==
  AsSeq([k \in 1..Len(known) |->
           [key |-> unitKey(known[k]), score |-> keywordScore2(query, known[k])]],
        Len(known))

KeywordScore2Table ==
  AsSeq([q \in 1..Len(KnownQueries) |-> keywordScoreRow(KnownQueries[q], Concat(FixedChunksTable))],
        Len(KnownQueries))

rowOf(row, chunk) == row[CHOOSE k \in 1..Len(row) : row[k].key = unitKey(chunk)]

keywordScore2Of(query, chunk) == rowOf(KeywordScore2Table[QueryIndex(query)], chunk).score

searchByKeywordsEnhanced(query, corpus) ==
  LET Score(c) == keywordScore2Of(query, c)
  IN  IF Len(queryWords(query)) = 0 THEN <<>>
      ELSE resultChunks(topScored(withScores(corpus, Score), 1, 3))

\* findRelevantChunks once the system is ready and getEmbedding(query) has
\* resolved to queryEmbedding
HasEmbedding(c) == c.embedding # None

semanticOrKeyword(results, query, queryEmbedding, corpus) ==
  IF queryEmbedding # None /\ Len(results) > 0 THEN resultChunks(results)
  ELSE searchByKeywordsEnhanced(query, corpus)

rankChunks(query, queryEmbedding, corpus) ==
  LET Score(c) == similarity(queryEmbedding, c.embedding)
  IN  semanticOrKeyword(topScored(withScores(Filter(corpus, HasEmbedding), Score), 200, 3),
                        query, queryEmbedding, corpus)

\* getEmbedding before its fetch: no key, or a text too short, answers
\* undefined without calling the provider
embeddingNeedsFetch(hasKey, text) == hasKey /\ Len(trim(text)) >= 10

\* ------------------------------------------------------------------ state

\* the callers: each makes one call of the public API
NumCalls == 2
Procs == 1..NumCalls

VARIABLES
  groqKey,          \* GROQ_API_KEY is set
  openaiKey,        \* OPENAI_API_KEY is set
  dir,              \* the entries of public/transcripts
  chunks,           \* let chunks: Chunk[]
  enhancedChunks,   \* let enhancedChunks: EnhancedChunk[]
  isReady,
  isEnhancedReady,
  initError,        \* string | null
  calls,            \* per caller: the frame of its call (position and locals)
  passes,           \* how often each initialisation passed its guard
  sample            \* one application of a function of the module to given inputs

vars == <<groqKey, openaiKey, dir, chunks, enhancedChunks, isReady,
          isEnhancedReady, initError, calls, passes, sample>>

\* the three messages initialize records in initError (the first is followed
\* by the path of the directory)
ErrDirectory == "Cannot access transcript directory"
ErrNoFiles   == "No .txt transcript files found"
ErrNoChunks  == "No valid content chunks created from transcripts"

NoResult == [kind |-> "none", error |-> NULL, sources |-> <<>>]

\* A frame: the call (op, query), where it is suspended (pc), the locals of
\* the initialisation pass it runs (files, fileIdx, totalChunks, toEmbed, i,
\* consecutiveFailures), the locals of its retrieval (queryEmbedding,
\* filtered, semanticCandidates, keywordCandidates, retrieved), its result,
\* and what it has asked of the outside so far (scans, embedCalls,
\* groqCalls); failureRun counts the embedding calls of the pass that failed
\* in a row, sawError is initError as it was when the call began, searched
\* tells that the call's retrieval has scored the corpus.  chunksToEmbed =
\* chunks.slice(0, 50) holds the first toEmbed objects of the list, which
\* only ever grows at its end: toEmbed is all the model keeps of it.
IdleFrame ==
  [op |-> "none", query |-> <<>>, pc |-> "idle",
   files |-> <<>>, fileIdx |-> 0, totalChunks |-> 0, toEmbed |-> 0, i |-> 0,
   consecutiveFailures |-> 0, failureRun |-> 0,
   queryEmbedding |-> None, filtered |-> <<>>,
   semanticCandidates |-> <<>>, keywordCandidates |-> <<>>, retrieved |-> <<>>,
   result |-> NoResult, sawError |-> NULL, searched |-> FALSE,
   scans |-> 0, embedCalls |-> 0, groqCalls |-> 0]

\* positions a call waits at for the outside world (a macrotask resumes it)
IOPcs == {"init_readdir", "init_readFile", "init_embedFetch", "init_delay",
          "frc_embedFetch", "groq",
          "einit_readdir", "einit_readFile", "einit_embedFetch", "einit_delay",
          "msr_embedFetch"}

\* positions a call resumes from in the same turn of the event loop (an
\* await of a promise that is already settled): nothing from outside runs
\* before it
MicroPcs == {"init_returned", "init_embedNoFetch", "frc_embedNoFetch", "frc_returned",
             "einit_returned", "einit_embedNoFetch", "msr_embedNoFetch", "msr_returned"}

InitPcs  == {"init_readdir", "init_readFile", "init_embedFetch",
             "init_embedNoFetch", "init_delay"}
EInitPcs == {"einit_readdir", "einit_readFile", "einit_embedFetch",
             "einit_embedNoFetch", "einit_delay"}

\* the event loop is between turns: a new request or an I/O completion may run
Quiet == \A p \in Procs : calls[p].pc \notin MicroPcs

\* the locals of a finished initialisation pass go out of scope
DropInitLocals(f) ==
  [f EXCEPT !.files = <<>>, !.fileIdx = 0, !.totalChunks = 0, !.toEmbed = 0,
            !.i = 0, !.consecutiveFailures = 0, !.failureRun = 0]

Finish(f, result) ==
  [f EXCEPT !.pc = "done", !.result = result, !.queryEmbedding = None,
            !.filtered = <<>>, !.semanticCandidates = <<>>,
            !.keywordCandidates = <<>>, !.retrieved = <<>>]

txtFiles(files) == LET IsTxt(f) == f.ext = "txt" IN Filter(files, IsTxt)

\* A record of the retrieval calls that have returned, kept when a run
\* starts with one (sample.fn = "retrievals"): what each was called with,
\* what it returned, and whether another call was awaiting its query's
\* embedding at that moment.
RetrievalLog == [fn |-> "retrievals", x |-> NULL, y |-> NULL, applied |-> TRUE, out |-> <<>>]

returnedCall(f, overlapped) ==
  [op |-> f.op, query |-> f.query, queryEmbedding |-> f.queryEmbedding,
   retrieved |-> f.retrieved, overlapped |-> overlapped]

RetrievalReturned(p) ==
  sample' = IF sample.fn = "retrievals"
            THEN [sample EXCEPT !.out =
                    Append(sample.out,
                           returnedCall(calls'[p],
                                        \E q \in Procs \ {p} :
                                          calls[q].pc \in {"frc_embedFetch",
                                                           "msr_embedFetch"}))]
            ELSE sample

Ids(seq) ==
  AsSeq([k \in 1..Len(seq) |-> [episode |-> seq[k].episode, index |-> seq[k].index]],
        Len(seq))

\* ------------------------------------------------------------ initialize

\* initialize() up to its first await: the guard, then fs.readdir
EnterInitialize(p, f) ==
  IF isReady \/ initError # NULL
  THEN /\ calls' = [calls EXCEPT ![p] = [f EXCEPT !.pc = "init_returned"]]
       /\ passes' = passes
  ELSE /\ calls' = [calls EXCEPT ![p] = [f EXCEPT !.pc = "init_readdir",
                                                  !.scans = f.scans + 1]]
       /\ passes' = [passes EXCEPT !.initialize = passes.initialize + 1]

\* getEmbedding(text) up to its fetch, for chunk number f.i of chunksToEmbed
BeginBulkEmbedding(f, list, fetchPc, noFetchPc) ==
  IF embeddingNeedsFetch(openaiKey, list[f.i + 1].text)
  THEN [f EXCEPT !.pc = fetchPc, !.embedCalls = f.embedCalls + 1]
  ELSE [f EXCEPT !.pc = noFetchPc]

\* after the loop over the files: the zero-chunk error, or the embedding loop
AfterFiles(p, f, list) ==
  IF f.totalChunks = 0
  THEN /\ initError' = ErrNoChunks
       /\ calls' = [calls EXCEPT ![p] = DropInitLocals([f EXCEPT !.pc = "init_returned"])]
  ELSE /\ initError' = initError
       /\ calls' = [calls EXCEPT ![p] =
            BeginBulkEmbedding([f EXCEPT !.toEmbed = Min(50, Len(list)), !.i = 0],
                               list, "init_embedFetch", "init_embedNoFetch")]

\* fs.readdir settles
ReaddirDone(p) ==
  LET f == calls[p] IN
  /\ f.pc = "init_readdir" /\ Quiet
  /\ \E ok \in BOOLEAN :
       LET files == IF ok THEN txtFiles(dir) ELSE <<>> IN
       /\ initError' = IF ~ok THEN ErrDirectory
                       ELSE IF Len(files) = 0 THEN ErrNoFiles ELSE initError
       /\ calls' = [calls EXCEPT ![p] =
            IF ok /\ Len(files) > 0
            THEN [f EXCEPT !.pc = "init_readFile", !.files = files, !.fileIdx = 1]
            ELSE DropInitLocals([f EXCEPT !.pc = "init_returned"])]
  /\ UNCHANGED <<sample, groqKey, openaiKey, dir, chunks, enhancedChunks, isReady,
                 isEnhancedReady, passes>>

\* fs.readFile settles for files[fileIdx]: the file's chunks are pushed (a
\* read that throws is logged and the loop goes on), then the next read, or
\* the rest of initialize up to its next await
ReadFileDone(p) ==
  LET f == calls[p] IN
  /\ f.pc = "init_readFile" /\ Quiet
  /\ \E ok \in BOOLEAN :
       /\ chunks' = chunks \o (IF ok THEN fixedChunksOf(f.files[f.fileIdx]) ELSE <<>>)
       /\ IF f.fileIdx < Len(f.files)
          THEN /\ calls' = [calls EXCEPT ![p] =
                    [f EXCEPT !.fileIdx = f.fileIdx + 1,
                              !.totalChunks = f.totalChunks + Len(chunks') - Len(chunks)]]
               /\ initError' = initError
          ELSE AfterFiles(p, [f EXCEPT !.totalChunks =
                                        f.totalChunks + Len(chunks') - Len(chunks)],
                          chunks')
  /\ UNCHANGED <<sample, groqKey, openaiKey, dir, enhancedChunks, isReady,
                 isEnhancedReady, passes>>

\* getEmbedding settles for chunksToEmbed[i]: the embedding is stored, or
\* the failure counted and the loop left at 5 in a row; then the 500 ms delay
BulkEmbedDone(p) ==
  LET f == calls[p] IN
  /\ \/ f.pc = "init_embedFetch" /\ Quiet
     \/ f.pc = "init_embedNoFetch"
  /\ \E embedding \in {None} \cup {Some(v) : v \in Vectors} :
       /\ f.pc = "init_embedNoFetch" => embedding = None
       /\ IF embedding # None
          THEN /\ chunks' = [chunks EXCEPT ![f.i + 1].embedding = embedding]
               /\ calls' = [calls EXCEPT ![p] =
                    [f EXCEPT !.pc = "init_delay", !.consecutiveFailures = 0,
                              !.failureRun = 0]]
               /\ isReady' = isReady
          ELSE /\ chunks' = chunks
               /\ IF f.consecutiveFailures + 1 >= 5
                  THEN /\ isReady' = TRUE
                       /\ calls' = [calls EXCEPT ![p] =
                            DropInitLocals([f EXCEPT !.pc = "init_returned"])]
                  ELSE /\ isReady' = isReady
                       /\ calls' = [calls EXCEPT ![p] =
                            [f EXCEPT !.pc = "init_delay",
                                      !.consecutiveFailures = f.consecutiveFailures + 1,
                                      !.failureRun = f.failureRun + 1]]
  /\ UNCHANGED <<sample, groqKey, openaiKey, dir, enhancedChunks, isEnhancedReady,
                 initError, passes>>

\* the delay ends: the next chunk's getEmbedding, or the end of the loop
DelayDone(p) ==
  LET f == calls[p] IN
  /\ f.pc = "init_delay" /\ Quiet
  /\ IF f.i + 1 < f.toEmbed
     THEN /\ calls' = [calls EXCEPT ![p] =
               BeginBulkEmbedding([f EXCEPT !.i = f.i + 1], chunks,
                                  "init_embedFetch", "init_embedNoFetch")]
          /\ isReady' = isReady
     ELSE /\ calls' = [calls EXCEPT ![p] =
               DropInitLocals([f EXCEPT !.pc = "init_returned"])]
          /\ isReady' = TRUE
  /\ UNCHANGED <<sample, groqKey, openaiKey, dir, chunks, enhancedChunks,
                 isEnhancedReady, initError, passes>>

\* ------------------------------------- generateResponse, getSystemStatus

Result(kind) == [kind |-> kind, error |-> NULL, sources |-> <<>>]

\* generateResponse(query) up to its first await
CallGenerateResponse(p) ==
  /\ calls[p].pc = "idle" /\ Quiet
  /\ \E query \in Queries :
       LET f == [calls[p] EXCEPT !.op = "generateResponse", !.query = query,
                                 !.sawError = initError] IN
       IF Len(trim(query)) = 0
       THEN calls' = [calls EXCEPT ![p] = Finish(f, Result("PleaseAsk"))] /\ passes' = passes
       ELSE IF ~groqKey
       THEN calls' = [calls EXCEPT ![p] = Finish(f, Result("NoGroqKey"))] /\ passes' = passes
       ELSE IF ~openaiKey
       THEN calls' = [calls EXCEPT ![p] = Finish(f, Result("NoOpenAIKey"))] /\ passes' = passes
       ELSE EnterInitialize(p, f)
  /\ UNCHANGED <<sample, groqKey, openaiKey, dir, chunks, enhancedChunks, isReady,
                 isEnhancedReady, initError>>

\* getSystemStatus() up to its first await
CallGetSystemStatus(p) ==
  /\ calls[p].pc = "idle" /\ Quiet
  /\ EnterInitialize(p, [calls[p] EXCEPT !.op = "getSystemStatus",
                                         !.sawError = initError])
  /\ UNCHANGED <<sample, groqKey, openaiKey, dir, chunks, enhancedChunks, isReady,
                 isEnhancedReady, initError>>

\* getEmbedding(query) up to its fetch
BeginQueryEmbedding(f, fetchPc, noFetchPc) ==
  IF embeddingNeedsFetch(openaiKey, f.query)
  THEN [f EXCEPT !.pc = fetchPc, !.embedCalls = f.embedCalls + 1]
  ELSE [f EXCEPT !.pc = noFetchPc]

\* the caller resumes after await initialize(): getSystemStatus builds its
\* snapshot; findRelevantChunks gives up when not ready, or embeds the query
InitReturned(p) ==
  LET f == calls[p] IN
  /\ f.pc = "init_returned"
  /\ calls' = [calls EXCEPT ![p] =
       IF f.op = "getSystemStatus"
       THEN Finish(f, [kind |-> "Status", error |-> initError, sources |-> <<>>])
       ELSE IF ~isReady
       THEN [f EXCEPT !.pc = "frc_returned", !.retrieved = <<>>]
       ELSE BeginQueryEmbedding(f, "frc_embedFetch", "frc_embedNoFetch")]
  /\ UNCHANGED <<sample, groqKey, openaiKey, dir, chunks, enhancedChunks, isReady,
                 isEnhancedReady, initError, passes>>

\* getEmbedding(query) settles: the rest of findRelevantChunks
QueryEmbedDone(p) ==
  LET f == calls[p] IN
  /\ \/ f.pc = "frc_embedFetch" /\ Quiet
     \/ f.pc = "frc_embedNoFetch"
  /\ \E embedding \in {None} \cup {Some(v) : v \in Vectors} :
       /\ f.pc = "frc_embedNoFetch" => embedding = None
       /\ calls' = [calls EXCEPT ![p] =
            [f EXCEPT !.pc = "frc_returned", !.queryEmbedding = embedding,
                      !.searched = TRUE,
                      !.retrieved = rankChunks(f.query, embedding, chunks)]]
  /\ RetrievalReturned(p)
  /\ UNCHANGED <<groqKey, openaiKey, dir, chunks, enhancedChunks, isReady,
                 isEnhancedReady, initError, passes>>

\* generateResponse resumes with relevantChunks: the two messages for an
\* empty list, or generateWithGroq up to its fetch
FrcReturned(p) ==
  LET f == calls[p] IN
  /\ f.pc = "frc_returned"
  /\ calls' = [calls EXCEPT ![p] =
       IF Len(f.retrieved) = 0
       THEN IF initError # NULL
            THEN Finish(f, [kind |-> "SystemError", error |-> initError, sources |-> <<>>])
            ELSE Finish(f, Result("NoInfo"))
       ELSE IF ~groqKey
       THEN Finish(f, [kind |-> "GroqFailed", error |-> NULL, sources |-> Ids(f.retrieved)])
       ELSE [f EXCEPT !.pc = "groq", !.groqCalls = f.groqCalls + 1,
                      !.result = [kind |-> "none", error |-> NULL,
                                  sources |-> Ids(f.retrieved)],
                      !.retrieved = <<>>, !.queryEmbedding = None]]
  /\ UNCHANGED <<sample, groqKey, openaiKey, dir, chunks, enhancedChunks, isReady,
                 isEnhancedReady, initError, passes>>

\* the completion request settles, and a thrown transport error leaves the
\* call without an answer of its own
GroqDoneUncaught(p) ==
  LET f == calls[p] IN
  /\ f.pc = "groq" /\ Quiet
  /\ \E kind \in {"Answer", "Thrown"} :
       calls' = [calls EXCEPT ![p] = Finish(f, [f.result EXCEPT !.kind = kind])]
  /\ UNCHANGED <<sample, groqKey, openaiKey, dir, chunks, enhancedChunks, isReady,
                 isEnhancedReady, initError, passes>>

\* the completion request settles: generateWithGroq turns every outcome (an
\* error status, a payload without content, a thrown transport error, an
\* answer) into a string, which the call returns
GroqDone(p) ==
  LET f == calls[p] IN
  /\ f.pc = "groq" /\ Quiet
  /\ \E kind \in {"Answer", "GroqFailed"} :
       calls' = [calls EXCEPT ![p] = Finish(f, [f.result EXCEPT !.kind = kind])]
  /\ UNCHANGED <<sample, groqKey, openaiKey, dir, chunks, enhancedChunks, isReady,
                 isEnhancedReady, initError, passes>>

\* ------------------------------------------------- enhanced system: chunks

\* the rule table of extractTopics: each topic with the alternatives of its
\* case-insensitive pattern, in the order of the object's keys
topicPatterns == <<
  [topic |-> "real-estate", alternatives |-> {
      <<"r","e","a","l"," ","e","s","t","a","t","e">>,
      <<"p","r","o","p","e","r","t","y">>,
      <<"h","o","u","s","i","n","g">>,
      <<"c","o","n","s","t","r","u","c","t","i","o","n">>,
      <<"b","u","i","l","d","e","r">>,
      <<"a","p","a","r","t","m","e","n","t">>,
      <<"r","e","n","t">>}],
  [topic |-> "gaming", alternatives |-> {
      <<"g","a","m","e">>,
      <<"g","a","m","i","n","g">>,
      <<"e","s","p","o","r","t","s">>,
      <<"m","o","b","i","l","e"," ","g","a","m","i","n","g">>,
      <<"p","c"," ","g","a","m","i","n","g">>,
      <<"c","o","n","s","o","l","e">>,
      <<"d","e","v","e","l","o","p","e","r">>}],
  [topic |-> "startup", alternatives |-> {
      <<"s","t","a","r","t","u","p">>,
      <<"e","n","t","r","e","p","r","e","n","e","u","r">>,
      <<"b","u","s","i","n","e","s","s">>,
      <<"c","o","m","p","a","n","y">>,
      <<"v","e","n","t","u","r","e">>,
      <<"f","o","u","n","d","e","r">>}],
  [topic |-> "fintech", alternatives |-> {
      <<"f","i","n","t","e","c","h">>,
      <<"f","i","n","a","n","c","i","a","l">>,
      <<"b","a","n","k","i","n","g">>,
      <<"p","a","y","m","e","n","t">>,
      <<"w","a","l","l","e","t">>,
      <<"u","p","i">>,
      <<"d","i","g","i","t","a","l"," ","p","a","y","m","e","n","t">>}],
  [topic |-> "edtech", alternatives |-> {
      <<"e","d","u","c","a","t","i","o","n">>,
      <<"l","e","a","r","n","i","n","g">>,
      <<"o","n","l","i","n","e"," ","c","o","u","r","s","e">>,
      <<"s","k","i","l","l">>,
      <<"t","r","a","i","n","i","n","g">>,
      <<"e","d","t","e","c","h">>}],
  [topic |-> "food", alternatives |-> {
      <<"r","e","s","t","a","u","r","a","n","t">>,
      <<"f","o","o","d">>,
      <<"d","i","n","i","n","g">>,
      <<"k","i","t","c","h","e","n">>,
      <<"c","h","e","f">>,
      <<"d","e","l","i","v","e","r","y">>,
      <<"z","o","m","a","t","o">>,
      <<"s","w","i","g","g","y">>}],
  [topic |-> "ev", alternatives |-> {
      <<"e","l","e","c","t","r","i","c"," ","v","e","h","i","c","l","e">>,
      <<"e","v">>,
      <<"b","a","t","t","e","r","y">>,
      <<"a","u","t","o","m","o","t","i","v","e">>,
      <<"c","a","r">>,
      <<"v","e","h","i","c","l","e">>,
      <<"c","h","a","r","g","i","n","g">>}],
  [topic |-> "investment", alternatives |-> {
      <<"i","n","v","e","s","t","m","e","n","t">>,
      <<"f","u","n","d","i","n","g">>,
      <<"v","c">>,
      <<"i","n","v","e","s","t","o","r">>,
      <<"c","a","p","i","t","a","l">>,
      <<"v","a","l","u","a","t","i","o","n">>,
      <<"i","p","o">>}],
  [topic |-> "marketing", alternatives |-> {
      <<"m","a","r","k","e","t","i","n","g">>,
      <<"b","r","a","n","d">>,
      <<"a","d","v","e","r","t","i","s","i","n","g">>,
      <<"c","o","n","t","e","n","t">>,
      <<"s","o","c","i","a","l"," ","m","e","d","i","a">>,
      <<"i","n","f","l","u","e","n","c","e","r">>}],
  [topic |-> "healthcare", alternatives |-> {
      <<"h","e","a","l","t","h","c","a","r","e">>,
      <<"m","e","d","i","c","a","l">>,
      <<"h","o","s","p","i","t","a","l">>,
      <<"d","o","c","t","o","r">>,
      <<"t","e","l","e","m","e","d","i","c","i","n","e">>,
      <<"p","h","a","r","m","a">>}]
>>

\* extractTopics(text): the topics whose pattern matches somewhere in text,
\* letter case ignored, in the order of the table
topicNames(rules) == AsSeq([k \in 1..Len(rules) |-> rules[k].topic], Len(rules))

extractTopics(text) ==
  LET Detected(rule) == \E alt \in rule.alternatives : includes(toLowerCase(text), alt)
  IN  topicNames(Filter(topicPatterns, Detected))

\* the least and the greatest of a non-empty set of positions
First(S) == CHOOSE i \in S : \A j \in S : i <= j
Last(S) == CHOOSE i \in S : \A j \in S : i >= j

\* /\n\s*\n|\n(?=[A-Z][a-z]*:)/ tried at position i of s: the position of
\* the last character of the match, 0 when there is none.  A line break
\* followed by blank space up to a further line break (as far as that
\* goes), or else a line break right before a capitalised word and a colon.
blankEnds(s, i) ==
  {e \in (i + 1)..Len(s) : s[e] = "\n" /\ \A k \in (i + 1)..e : s[k] \in Whitespace}

speakerAhead(s, i) ==
  /\ i + 1 <= Len(s) /\ IsUpper(s[i + 1])
  /\ \E k \in (i + 2)..Len(s) : s[k] = ":" /\ \A j \in (i + 2)..(k - 1) : IsLower(s[j])

SepEndAmong(s, i, ends) ==
  IF ends # {} THEN Last(ends) ELSE IF speakerAhead(s, i) THEN i ELSE 0

SepEnd(s, i) == IF s[i] # "\n" THEN 0 ELSE SepEndAmong(s, i, blankEnds(s, i))

\* content.split(/\n\s*\n|\n(?=[A-Z][a-z]*:)/)
RECURSIVE SplitAtSeps(_, _, _)
SplitAtSeps(s, sepStarts, from) ==
  LET ahead == {i \in sepStarts : i >= from}
  IN  IF ahead = {} THEN <<SubSeq(s, from, Len(s))>>
      ELSE <<SubSeq(s, from, First(ahead) - 1)>>
             \o SplitAtSeps(s, sepStarts, SepEnd(s, First(ahead)) + 1)

splitSections(content) ==
  SplitAtSeps(content, {i \in 1..Len(content) : SepEnd(content, i) > 0}, 1)

\* the loop of createSmartChunks over the sentences of a section longer
\* than 800 characters: the texts it pushes, in order
flushChunk(pushed, currentChunk) ==
  IF Len(trim(currentChunk)) > 0 THEN Append(pushed, trim(currentChunk)) ELSE pushed

addSentence(before, sentence) ==
  IF Len(before.currentChunk) + Len(sentence) > 600
  THEN [currentChunk |-> sentence,
        pushed |-> flushChunk(before.pushed, before.currentChunk)]
  ELSE [currentChunk |-> before.currentChunk \o sentence \o <<".", " ">>,
        pushed |-> before.pushed]

afterSentences(sentences) ==
  LET L[k \in 0..Len(sentences)] ==
        IF k = 0 THEN [currentChunk |-> <<>>, pushed |-> <<>>]
        ELSE addSentence(L[k - 1], sentences[k])
  IN  L[Len(sentences)]

flushLast(after) == flushChunk(after.pushed, after.currentChunk)

sentenceChunks(section) ==
  LET Kept(s) == Len(trim(s)) > 20
  IN  flushLast(afterSentences(Filter(splitOnRuns(section, {".", "!", "?"}), Kept)))

\* text.match(/^([A-Z][a-z\s]+):\s*(.+)/): the two groups, or matched = FALSE.
\* The name runs from the capital to the first character that is neither a
\* small letter nor blank, which has to be the colon; (.+) begins after the
\* blank space that follows, on a character of the line it then takes.
nameStops(text) ==
  {k \in 2..Len(text) : ~(IsLower(text[k]) \/ text[k] \in Whitespace)}

restBegins(text, colon) ==
  {m \in (colon + 1)..Len(text) :
     text[m] # "\n" /\ \A j \in (colon + 1)..(m - 1) : text[j] \in Whitespace}

lineBreaks(text, begin) == {e \in begin..Len(text) : text[e] = "\n"}

lineFrom(text, begin, breaks) ==
  SubSeq(text, begin, IF breaks = {} THEN Len(text) ELSE First(breaks) - 1)

restFrom(text, begin) == lineFrom(text, begin, lineBreaks(text, begin))

groupsAt(text, colon, begins) ==
  IF colon >= 3 /\ text[colon] = ":" /\ begins # {}
  THEN [matched |-> TRUE, name |-> SubSeq(text, 1, colon - 1),
        rest |-> restFrom(text, Last(begins))]
  ELSE [matched |-> FALSE, name |-> <<>>, rest |-> <<>>]

speakerAt(text, colon) == groupsAt(text, colon, restBegins(text, colon))

speakerFrom(text, stops) ==
  IF Len(text) >= 1 /\ IsUpper(text[1]) /\ stops # {}
  THEN speakerAt(text, First(stops))
  ELSE [matched |-> FALSE, name |-> <<>>, rest |-> <<>>]

speakerMatch(text) == speakerFrom(text, nameStops(text))

\* createChunkWithMetadata, without the episode title and the timestamp
\* (display only)
isHostName(speakerName) ==
  includes(speakerName, <<"n","i","k","h","i","l">>)
    \/ includes(speakerName, <<"h","o","s","t">>)

chunkOf(cleanText, episodeName, index, context, speaker, guestName) ==
  [text |-> cleanText,
   episode |-> episodeName,
   speaker |-> speaker,
   guestName |-> guestName,
   topics |-> extractTopics(cleanText \o <<" ">> \o context.prevContext
                              \o <<" ">> \o context.nextContext),
   index |-> index,
   context |-> context.prevContext \o <<" ","[",".",".",".","]"," ">>
                 \o context.nextContext,
   embedding |-> None]

chunkWithSpeaker(text, episodeName, index, context, m, isHost) ==
  IF ~m.matched THEN chunkOf(text, episodeName, index, context, "unknown", <<>>)
  ELSE IF isHost THEN chunkOf(m.rest, episodeName, index, context, "host", <<>>)
  ELSE chunkOf(m.rest, episodeName, index, context, "guest", m.name)

chunkWithMatch(text, episodeName, index, context, m) ==
  chunkWithSpeaker(text, episodeName, index, context, m, isHostName(toLowerCase(m.name)))

createChunkWithMetadata(text, episodeName, index, context) ==
  chunkWithMatch(text, episodeName, index, context, speakerMatch(text))

\* createSmartChunks: the sections, and for each the chunks pushed, numbered
\* by chunkIndex, with the neighbouring sections as context
sectionTexts(section) ==
  IF Len(section) > 800 THEN sentenceChunks(section) ELSE <<section>>

sectionContext(sections, i) ==
  [prevContext |-> IF i > 1 THEN SliceLast(sections[i - 1], 100) ELSE <<>>,
   nextContext |-> IF i < Len(sections) THEN Slice(sections[i + 1], 0, 100) ELSE <<>>]

pushSmartChunks(list, texts, episodeName, context) ==
  list \o AsSeq([k \in 1..Len(texts) |->
                   createChunkWithMetadata(texts[k], episodeName,
                                           Len(list) + k - 1, context)],
                Len(texts))

chunkSections(sections, episodeName) ==
  LET C[i \in 0..Len(sections)] ==
        IF i = 0 THEN <<>>
        ELSE pushSmartChunks(C[i - 1], sectionTexts(trim(sections[i])), episodeName,
                             sectionContext(sections, i))
  IN  C[Len(sections)]

createSmartChunks(content, episodeName) ==
  LET Kept(s) == Len(trim(s)) > 50
  IN  chunkSections(Filter(splitSections(content), Kept), episodeName)

SmartChunksTable ==
  AsSeq([k \in 1..Len(KnownFiles) |->
           createSmartChunks(FileContent(KnownFiles[k]), KnownFiles[k].base)],
        Len(KnownFiles))

smartChunksOf(file) == SmartChunksTable[FileIndex(file)]

\* ------------------------------------------------ enhanced system: scoring

\* cosineSimilarity(a, b), a and b being embeddings (None for a missing one)
cosineSimilarity(a, b) ==
  IF a = None \/ b = None \/ Len(a[1]) # Len(b[1]) \/ Len(a[1]) = 0 THEN 0
  ELSE Cosine(a[1], b[1])

\* calculateKeywordRelevance(query, text): every occurrence of a query word
\* counts a tenth of the word's length, the whole query occurring counts 2,
\* and the sum is divided by twice the number of query words.  Without
\* query words the division is by zero: 2 / 0 is Infinity, which Math.min
\* turns into 1, and 0 / 0 is NaN, which Math.min hands on.
relevanceOfScore(score10, wordCount) ==
  IF wordCount = 0 THEN (IF score10 = 0 THEN NaN ELSE 1000)
  ELSE Min((1000 * score10) \div (10 * wordCount * 2), 1000)

\* ten times the score: matches * (word.length / 10) for every word
wordScore10(textLower, words) ==
  SumSeq(AsSeq([k \in 1..Len(words) |-> matchCount(textLower, words[k]) * Len(words[k])],
               Len(words)))

relevanceIn(textLower, words, queryLower) ==
  relevanceOfScore(wordScore10(textLower, words)
                     + (IF includes(textLower, queryLower) THEN 20 ELSE 0),
                   Len(words))

calculateKeywordRelevance(query, text) ==
  relevanceIn(toLowerCase(text), queryWordsOf(query), toLowerCase(query))

\* calculateContentRelevance(query, text) of the original system: the same
\* sum, divided by text.length / 100 and capped at 1; a division by 0
\* gives Infinity, capped, or NaN
contentRelevanceOfScore(score10, length) ==
  IF length = 0 THEN (IF score10 = 0 THEN NaN ELSE 1000)
  ELSE Min((10000 * score10) \div length, 1000)

calculateContentRelevance(query, text) ==
  contentRelevanceOfScore(wordScore10(toLowerCase(text), queryWordsOf(query))
                            + (IF includes(toLowerCase(text), toLowerCase(query))
                               THEN 20 ELSE 0),
                          Len(text))

\* Every score of a query of the model against a unit of the model's files
\* is worked out once: of the unit's text, of its context, and of
\* chunk.text + ' ' + chunk.context.
keywordRelevanceRow(query, known) ==
  AsSeq([k \in 1..Len(known) |->
           [key |-> unitKey(known[k]),
            text |-> calculateKeywordRelevance(query, known[k].text),
            context |-> calculateKeywordRelevance(query, known[k].context),
            search |-> calculateKeywordRelevance(
                         query, known[k].text \o <<" ">> \o known[k].context)]],
        Len(known))

KeywordRelevanceTable ==
  AsSeq([q \in 1..Len(KnownQueries) |-> keywordRelevanceRow(KnownQueries[q], Concat(SmartChunksTable))],
        Len(KnownQueries))

keywordRelevanceOf(query, chunk) == rowOf(KeywordRelevanceTable[QueryIndex(query)], chunk)

QueryTopicsTable ==
  AsSeq([q \in 1..Len(KnownQueries) |-> extractTopics(KnownQueries[q])], Len(KnownQueries))

queryTopicsOf(query) == QueryTopicsTable[QueryIndex(query)]

Range(seq) == {seq[k] : k \in 1..Len(seq)}

\* chunk.topics.some(topic => queryTopics.includes(topic))
sharesTopic(chunk, queryTopics) == Range(chunk.topics) \cap Range(queryTopics) # {}

\* calculateEnhancedRelevance(query, chunk, queryEmbedding): the four
\* weighted parts, and their sum under Math.min(score, 1)
semanticPart(chunk, queryEmbedding) ==
  IF queryEmbedding # None /\ chunk.embedding # None
  THEN cosineSimilarity(queryEmbedding, chunk.embedding)
  ELSE 0

topicPart(chunk, queryTopics) ==
  IF Len(queryTopics) > 0
  THEN (1000 * Cardinality({k \in 1..Len(chunk.topics) :
                              chunk.topics[k] \in Range(queryTopics)}))
         \div Len(queryTopics)
  ELSE 500

weightedSum(semanticScore, keywordScore, topicScore, contextScore) ==
  IF keywordScore = NaN \/ contextScore = NaN THEN NaN
  ELSE Min(4 * semanticScore + 3 * keywordScore + 2 * topicScore + contextScore, 10000)

relevanceWith(chunk, queryEmbedding, keyword, queryTopics) ==
  weightedSum(semanticPart(chunk, queryEmbedding), keyword.text,
              topicPart(chunk, queryTopics), keyword.context)

calculateEnhancedRelevance(query, chunk, queryEmbedding) ==
  relevanceWith(chunk, queryEmbedding, keywordRelevanceOf(query, chunk),
                queryTopicsOf(query))

\* the level the 0.5 threshold alone gives a score
levelOfScore(score, chunk, query) ==
  IF score # NaN /\ score > 5000 THEN "medium" ELSE "low"

\* determineConfidenceLevel(score, chunk, query)
determineConfidenceLevel(score, chunk, query) ==
  IF /\ score # NaN /\ score > 7000
     /\ Len(chunk.topics) > 0
     /\ sharesTopic(chunk, queryTopicsOf(query))
  THEN "high"
  ELSE IF score # NaN /\ score > 5000 THEN "medium"
  ELSE "low"

\* enhancedKeywordSearch(query, chunks)
enhancedKeywordSearch(query, corpus) ==
  LET Score(c) == keywordRelevanceOf(query, c).search
  IN  resultChunks(topScored(withScores(corpus, Score), 300, 8))

\* Stage 1 of performMultiStageRetrieval, before its await.  With query
\* topics the working set is a new array of the units found now; without,
\* it is the array enhancedChunks itself, read again after the await.  The
\* model keeps the positions of a new array's units in enhancedChunks, which
\* only grows at its end.
positionsSharing(corpus, queryTopics) ==
  LET Shares(k) == sharesTopic(corpus[k], queryTopics)
  IN  Filter(AsSeq([k \in 1..Len(corpus) |-> k], Len(corpus)), Shares)

\* a working set that is the corpus itself, whatever the query's topics
keepAllChunks(corpus, queryTopics) == [live |-> TRUE, positions |-> <<>>]

filterByTopics(corpus, queryTopics) ==
  IF Len(queryTopics) > 0
  THEN [live |-> FALSE, positions |-> positionsSharing(corpus, queryTopics)]
  ELSE [live |-> TRUE, positions |-> <<>>]

topicFilter(query, corpus) == filterByTopics(corpus, queryTopicsOf(query))

\* a working set that an earlier call has used up
chunksLeftByEarlierCalls(filtered, corpus) ==
  IF sample.fn = "retrievals" /\ Len(sample.out) > 0 THEN <<>>
  ELSE IF filtered.live THEN corpus
  ELSE AsSeq([k \in 1..Len(filtered.positions) |-> corpus[filtered.positions[k]]],
             Len(filtered.positions))

topicFilteredChunks(filtered, corpus) ==
  IF filtered.live THEN corpus
  ELSE AsSeq([k \in 1..Len(filtered.positions) |-> corpus[filtered.positions[k]]],
             Len(filtered.positions))

\* Stage 2: the semantic candidates, none without a query embedding
semanticStage(queryEmbedding, working) ==
  LET Score(c) == cosineSimilarity(queryEmbedding, c.embedding)
  IN  IF queryEmbedding = None THEN <<>>
      ELSE resultChunks(topScored(withScores(Filter(working, HasEmbedding), Score), 250, 10))

\* a list that takes every chunk, whatever its key
addAlways(unique, chunk) == Append(unique, chunk)

\* Stage 4, first half: the Map keyed by `${chunk.episode}-${chunk.index}`
\* keeps the first chunk of every key, in the order of first insertion
addUnique(unique, chunk) ==
  IF \E j \in 1..Len(unique) : unitKey(unique[j]) = unitKey(chunk) THEN unique
  ELSE Append(unique, chunk)

uniqueCandidates(combined) ==
  LET U[k \in 0..Len(combined)] ==
        IF k = 0 THEN <<>> ELSE addUnique(U[k - 1], combined[k])
  IN  U[Len(combined)]

\* Stage 4, second half: score, floor, sort, top 5
scoredCandidate(query, chunk, relevanceScore) ==
  [chunk |-> chunk,
   score |-> relevanceScore,
   confidenceLevel |-> determineConfidenceLevel(relevanceScore, chunk, query)]

rankCandidates(query, queryEmbedding, allCandidates) ==
  topScored(AsSeq([k \in 1..Len(allCandidates) |->
                     scoredCandidate(query, allCandidates[k],
                                     calculateEnhancedRelevance(query, allCandidates[k],
                                                                queryEmbedding))],
                  Len(allCandidates)),
            3000, 5)

\* performMultiStageRetrieval after getEmbedding(query) has resolved: the
\* candidates of the two stages and the results returned
combineStages(query, queryEmbedding, semanticCandidates, keywordCandidates) ==
  [semanticCandidates |-> semanticCandidates,
   keywordCandidates |-> keywordCandidates,
   results |-> rankCandidates(query, queryEmbedding,
                              uniqueCandidates(semanticCandidates \o keywordCandidates))]

multiStageRetrieval(query, queryEmbedding, working) ==
  combineStages(query, queryEmbedding, semanticStage(queryEmbedding, working),
                enhancedKeywordSearch(query, working))

\* ------------------------- initializeEnhanced, generateEnhancedResponse

\* initializeEnhanced() up to its first await: the guard, then fs.readdir
EnterInitializeEnhanced(p, f) ==
  IF isEnhancedReady
  THEN /\ calls' = [calls EXCEPT ![p] = [f EXCEPT !.pc = "einit_returned"]]
       /\ passes' = passes
  ELSE /\ calls' = [calls EXCEPT ![p] = [f EXCEPT !.pc = "einit_readdir",
                                                  !.scans = f.scans + 1]]
       /\ passes' = [passes EXCEPT !.initializeEnhanced = passes.initializeEnhanced + 1]

\* generateEnhancedResponse(query) up to its first await
CallGenerateEnhancedResponse(p) ==
  /\ calls[p].pc = "idle" /\ Quiet
  /\ \E query \in Queries :
       EnterInitializeEnhanced(p, [calls[p] EXCEPT !.op = "generateEnhancedResponse",
                                                   !.query = query,
                                                   !.sawError = initError])
  /\ UNCHANGED <<sample, groqKey, openaiKey, dir, chunks, enhancedChunks, isReady,
                 isEnhancedReady, initError>>

\* initializeEnhanced embedding every unit of the list instead of its first 30
AfterEnhancedFilesUnbounded(p, f, list) ==
  IF Len(list) = 0
  THEN /\ isEnhancedReady' = TRUE
       /\ calls' = [calls EXCEPT ![p] = DropInitLocals([f EXCEPT !.pc = "einit_returned"])]
  ELSE /\ isEnhancedReady' = isEnhancedReady
       /\ calls' = [calls EXCEPT ![p] =
            BeginBulkEmbedding([f EXCEPT !.toEmbed = Len(list), !.i = 0],
                               list, "einit_embedFetch", "einit_embedNoFetch")]

\* after the loop over the files: chunksToEmbed = enhancedChunks.slice(0, 30)
\* and the embedding loop, which an empty list passes over
AfterEnhancedFiles(p, f, list) ==
  IF Len(list) = 0
  THEN /\ isEnhancedReady' = TRUE
       /\ calls' = [calls EXCEPT ![p] = DropInitLocals([f EXCEPT !.pc = "einit_returned"])]
  ELSE /\ isEnhancedReady' = isEnhancedReady
       /\ calls' = [calls EXCEPT ![p] =
            BeginBulkEmbedding([f EXCEPT !.toEmbed = Min(30, Len(list)), !.i = 0],
                               list, "einit_embedFetch", "einit_embedNoFetch")]

\* fs.readdir settles; when it throws, the catch of initializeEnhanced logs
\* and the function returns
EReaddirDone(p) ==
  LET f == calls[p] IN
  /\ f.pc = "einit_readdir" /\ Quiet
  /\ \E ok \in BOOLEAN :
       LET files == txtFiles(dir) IN
       IF ~ok
       THEN /\ calls' = [calls EXCEPT ![p] =
                 DropInitLocals([f EXCEPT !.pc = "einit_returned"])]
            /\ isEnhancedReady' = isEnhancedReady
       ELSE IF Len(files) > 0
       THEN /\ calls' = [calls EXCEPT ![p] =
                 [f EXCEPT !.pc = "einit_readFile", !.files = files, !.fileIdx = 1]]
            /\ isEnhancedReady' = isEnhancedReady
       ELSE AfterEnhancedFiles(p, f, enhancedChunks)
  /\ UNCHANGED <<sample, groqKey, openaiKey, dir, chunks, enhancedChunks, isReady,
                 initError, passes>>

\* fs.readFile settles for files[fileIdx]: the file's smart chunks are
\* pushed and the loop goes on; a read that throws ends the function through
\* its catch, with what was pushed before left in the list
EReadFileDone(p) ==
  LET f == calls[p] IN
  /\ f.pc = "einit_readFile" /\ Quiet
  /\ \E ok \in BOOLEAN :
       IF ~ok
       THEN /\ enhancedChunks' = enhancedChunks
            /\ isEnhancedReady' = isEnhancedReady
            /\ calls' = [calls EXCEPT ![p] =
                 DropInitLocals([f EXCEPT !.pc = "einit_returned"])]
       ELSE /\ enhancedChunks' = enhancedChunks \o smartChunksOf(f.files[f.fileIdx])
            /\ IF f.fileIdx < Len(f.files)
               THEN /\ calls' = [calls EXCEPT ![p] = [f EXCEPT !.fileIdx = f.fileIdx + 1]]
                    /\ isEnhancedReady' = isEnhancedReady
               ELSE AfterEnhancedFiles(p, f, enhancedChunks')
  /\ UNCHANGED <<sample, groqKey, openaiKey, dir, chunks, isReady, initError, passes>>

\* getEmbedding settles for chunksToEmbed[i]: the embedding is stored if
\* there is one; then the 500 ms delay
EBulkEmbedDone(p) ==
  LET f == calls[p] IN
  /\ \/ f.pc = "einit_embedFetch" /\ Quiet
     \/ f.pc = "einit_embedNoFetch"
  /\ \E embedding \in {None} \cup {Some(v) : v \in Vectors} :
       /\ f.pc = "einit_embedNoFetch" => embedding = None
       /\ IF embedding # None
          THEN /\ enhancedChunks' = [enhancedChunks EXCEPT ![f.i + 1].embedding = embedding]
               /\ calls' = [calls EXCEPT ![p] = [f EXCEPT !.pc = "einit_delay",
                                                          !.failureRun = 0]]
          ELSE /\ enhancedChunks' = enhancedChunks
               /\ calls' = [calls EXCEPT ![p] =
                    [f EXCEPT !.pc = "einit_delay", !.failureRun = f.failureRun + 1]]
  /\ UNCHANGED <<sample, groqKey, openaiKey, dir, chunks, isReady, isEnhancedReady,
                 initError, passes>>

\* the delay ends: the next chunk's getEmbedding, or the end of the loop
EDelayDone(p) ==
  LET f == calls[p] IN
  /\ f.pc = "einit_delay" /\ Quiet
  /\ IF f.i + 1 < f.toEmbed
     THEN /\ calls' = [calls EXCEPT ![p] =
               BeginBulkEmbedding([f EXCEPT !.i = f.i + 1], enhancedChunks,
                                  "einit_embedFetch", "einit_embedNoFetch")]
          /\ isEnhancedReady' = isEnhancedReady
     ELSE /\ calls' = [calls EXCEPT ![p] =
               DropInitLocals([f EXCEPT !.pc = "einit_returned"])]
          /\ isEnhancedReady' = TRUE
  /\ UNCHANGED <<sample, groqKey, openaiKey, dir, chunks, enhancedChunks, isReady,
                 initError, passes>>

\* generateEnhancedResponse resumes after await initializeEnhanced(): the
\* not-ready message, or performMultiStageRetrieval up to its await
EInitReturned(p) ==
  LET f == calls[p] IN
  /\ f.pc = "einit_returned"
  /\ calls' = [calls EXCEPT ![p] =
       IF ~isEnhancedReady
       THEN Finish(f, Result("NotReady"))
       ELSE BeginQueryEmbedding([f EXCEPT !.filtered = topicFilter(f.query, enhancedChunks)],
                                "msr_embedFetch", "msr_embedNoFetch")]
  /\ UNCHANGED <<sample, groqKey, openaiKey, dir, chunks, enhancedChunks, isReady,
                 isEnhancedReady, initError, passes>>

\* the frame once performMultiStageRetrieval has returned r
withRetrieval(f, embedding, r) ==
  [f EXCEPT !.pc = "msr_returned", !.queryEmbedding = embedding,
            !.searched = TRUE,
            !.semanticCandidates = r.semanticCandidates,
            !.keywordCandidates = r.keywordCandidates,
            !.retrieved = r.results]

\* getEmbedding(query) settles, and the vector it gave is kept on the
\* first unit of the corpus
EQueryEmbedDoneKeeping(p) ==
  LET f == calls[p] IN
  /\ \/ f.pc = "msr_embedFetch" /\ Quiet
     \/ f.pc = "msr_embedNoFetch"
  /\ \E embedding \in {None} \cup {Some(v) : v \in Vectors} :
       /\ f.pc = "msr_embedNoFetch" => embedding = None
       /\ calls' = [calls EXCEPT ![p] =
            withRetrieval(f, embedding,
                          multiStageRetrieval(f.query, embedding,
                                              topicFilteredChunks(f.filtered,
                                                                  enhancedChunks)))]
       /\ enhancedChunks' = IF embedding # None /\ Len(enhancedChunks) > 0
                            THEN [enhancedChunks EXCEPT ![1].embedding = embedding]
                            ELSE enhancedChunks
  /\ RetrievalReturned(p)
  /\ UNCHANGED <<groqKey, openaiKey, dir, chunks, isReady,
                 isEnhancedReady, initError, passes>>

\* getEmbedding(query) settles: the rest of performMultiStageRetrieval
EQueryEmbedDone(p) ==
  LET f == calls[p] IN
  /\ \/ f.pc = "msr_embedFetch" /\ Quiet
     \/ f.pc = "msr_embedNoFetch"
  /\ \E embedding \in {None} \cup {Some(v) : v \in Vectors} :
       /\ f.pc = "msr_embedNoFetch" => embedding = None
       /\ calls' = [calls EXCEPT ![p] =
            withRetrieval(f, embedding,
                          multiStageRetrieval(f.query, embedding,
                                              topicFilteredChunks(f.filtered,
                                                                  enhancedChunks)))]
  /\ RetrievalReturned(p)
  /\ UNCHANGED <<groqKey, openaiKey, dir, chunks, enhancedChunks, isReady,
                 isEnhancedReady, initError, passes>>

\* generateEnhancedResponse resumes with results: the message for an empty
\* list, or generateWithGroq up to its fetch
MsrReturned(p) ==
  LET f == calls[p] IN
  /\ f.pc = "msr_returned"
  /\ calls' = [calls EXCEPT ![p] =
       IF Len(f.retrieved) = 0
       THEN Finish(f, Result("NoInfo"))
       ELSE IF ~groqKey
       THEN Finish(f, [kind |-> "GroqFailed", error |-> NULL,
                       sources |-> Ids(resultChunks(f.retrieved))])
       ELSE [f EXCEPT !.pc = "groq", !.groqCalls = f.groqCalls + 1,
                      !.result = [kind |-> "none", error |-> NULL,
                                  sources |-> Ids(resultChunks(f.retrieved))],
                      !.filtered = <<>>, !.semanticCandidates = <<>>,
                      !.keywordCandidates = <<>>, !.retrieved = <<>>,
                      !.queryEmbedding = None]]
  /\ UNCHANGED <<sample, groqKey, openaiKey, dir, chunks, enhancedChunks, isReady,
                 isEnhancedReady, initError, passes>>

\* ------------------------------------------- the functions on their own

\* The scorers, the chunker and the ranking after the query's embedding are
\* functions of their arguments.  A sample is one application: the function
\* (fn), its arguments (x, y), and its result (out) once applied.
NoSample == [fn |-> "none", x |-> NULL, y |-> NULL, applied |-> TRUE, out |-> NULL]

Sample(fn, x, y) == [fn |-> fn, x |-> x, y |-> y, applied |-> FALSE, out |-> NULL]

\* embeddings as a provider may hand them on: none, an empty array, arrays
\* of another dimension, of magnitude 0, and ordinary ones
SampleEmbeddings ==
  {None, Some(<<>>), Some(<<1>>), Some(<<0, 0>>), Some(<<1, 0>>), Some(<<0, 1>>),
   Some(<<3, 4>>)}

\* the texts the lexical scorer is applied to: the units of three files
SampleTexts ==
  {c.text : c \in Range(smartChunksOf(File("ep1", "txt")))
                    \cup Range(smartChunksOf(File("b1", "txt")))
                    \cup Range(smartChunksOf(File("edge", "txt")))}

SampleFiles == {f \in Range(KnownFiles) : f.ext = "txt"}

Applied(out) == sample' = [sample EXCEPT !.applied = TRUE, !.out = out]

\* The query endpoint, POST, up to its call of generateResponse: the status
\* of the validation error it answers with, or the message it passes on.
\* A message is what request.json() gave: a string (text), or something
\* else (kind).
Rejected(error) == [status |-> 400, error |-> error, called |-> FALSE, passed |-> <<>>]

Accepted(cleanMessage) ==
  [status |-> 200, error |-> NULL, called |-> TRUE, passed |-> cleanMessage]

\* app/api/chat/route.ts
checkedLength(cleanMessage) ==
  IF Len(cleanMessage) = 0 THEN Rejected("Message cannot be empty")
  ELSE IF Len(cleanMessage) > 500
  THEN Rejected("Message too long. Please keep it under 500 characters.")
  ELSE Accepted(cleanMessage)

POST(message) ==
  IF message.kind # "string" \/ Len(message.text) = 0
  THEN Rejected("Valid message is required")
  ELSE checkedLength(trim(message.text))

\* the route of part_002
checkedNotEmpty(cleanMessage) ==
  IF Len(cleanMessage) = 0 THEN Rejected("Message cannot be empty")
  ELSE Accepted(cleanMessage)

POST_part_002(message) ==
  IF message.kind # "string" \/ Len(message.text) = 0
  THEN Rejected("Valid message is required")
  ELSE checkedNotEmpty(trim(message.text))

\* the messages the endpoint is applied to: no message, a number, and
\* strings around the two length limits, with and without blank space
\* around them
Letters(n) == AsSeq([k \in 1..n |-> "a"], n)

StringMessage(text) == [kind |-> "string", text |-> text]

SampleMessages ==
  {[kind |-> "undefined", text |-> <<>>], [kind |-> "number", text |-> <<>>]}
    \cup {StringMessage(Letters(n)) : n \in {0, 1, 499, 500, 501}}
    \cup {StringMessage(<<" ">> \o Letters(n) \o <<" ", "\n">>) : n \in {0, 500, 501}}

ApplyPOST ==
  /\ sample.fn = "POST" /\ ~sample.applied
  /\ Applied([route |-> POST(sample.x), part_002 |-> POST_part_002(sample.x)])
  /\ UNCHANGED <<groqKey, openaiKey, dir, chunks, enhancedChunks, isReady,
                 isEnhancedReady, initError, calls, passes>>

\* similarity(a, b) and cosineSimilarity(a, b)
ApplySimilarity ==
  /\ sample.fn = "similarity" /\ ~sample.applied
  /\ Applied([similarity |-> similarity(sample.x, sample.y),
              cosineSimilarity |-> cosineSimilarity(sample.x, sample.y)])
  /\ UNCHANGED <<groqKey, openaiKey, dir, chunks, enhancedChunks, isReady,
                 isEnhancedReady, initError, calls, passes>>

\* calculateKeywordRelevance(query, text) and calculateContentRelevance(query,
\* text)
ApplyKeywordRelevance ==
  /\ sample.fn = "calculateKeywordRelevance" /\ ~sample.applied
  /\ Applied([calculateKeywordRelevance |-> calculateKeywordRelevance(sample.x, sample.y),
              calculateContentRelevance |-> calculateContentRelevance(sample.x, sample.y)])
  /\ UNCHANGED <<groqKey, openaiKey, dir, chunks, enhancedChunks, isReady,
                 isEnhancedReady, initError, calls, passes>>

\* the two chunkers on the content of a file: createSmartChunks(content,
\* episodeName), and the chunking loop of initialize
ApplyChunkers ==
  /\ sample.fn = "createSmartChunks" /\ ~sample.applied
  /\ Applied([smart |-> smartChunksOf(sample.x), fixed |-> fixedChunksOf(sample.x)])
  /\ UNCHANGED <<groqKey, openaiKey, dir, chunks, enhancedChunks, isReady,
                 isEnhancedReady, initError, calls, passes>>

\* performMultiStageRetrieval(query) over the units of one file, none of
\* them embedded, the query's embedding unavailable
retrievalOver(query, corpus) ==
  multiStageRetrieval(query, None,
                      topicFilteredChunks(topicFilter(query, corpus), corpus))

ApplyRetrieval ==
  /\ sample.fn = "performMultiStageRetrieval" /\ ~sample.applied
  /\ Applied(retrievalOver(sample.y, smartChunksOf(sample.x)))
  /\ UNCHANGED <<groqKey, openaiKey, dir, chunks, enhancedChunks, isReady,
                 isEnhancedReady, initError, calls, passes>>

\* ------------------------------------------------------- specification

\* The environment is fixed for a run: the keys, and the directory's files.
\* Every caller has its call ahead of it.
Init ==
  /\ groqKey \in BOOLEAN
  /\ openaiKey \in BOOLEAN
  /\ dir \in {DirEmpty, DirSmall}
  /\ chunks = <<>>
  /\ enhancedChunks = <<>>
  /\ isReady = FALSE
  /\ isEnhancedReady = FALSE
  /\ initError = NULL
  /\ calls = [p \in Procs |-> IdleFrame]
  /\ passes = [initialize |-> 0, initializeEnhanced |-> 0]
  /\ sample = NoSample

\* the original system: generateResponse and getSystemStatus
NextOriginal ==
  \E p \in Procs :
    \/ CallGenerateResponse(p)
    \/ CallGetSystemStatus(p)
    \/ ReaddirDone(p)
    \/ ReadFileDone(p)
    \/ BulkEmbedDone(p)
    \/ DelayDone(p)
    \/ InitReturned(p)
    \/ QueryEmbedDone(p)
    \/ FrcReturned(p)
    \/ GroqDone(p)

\* the enhanced system: generateEnhancedResponse
NextEnhanced ==
  \E p \in Procs :
    \/ CallGenerateEnhancedResponse(p)
    \/ EReaddirDone(p)
    \/ EReadFileDone(p)
    \/ EBulkEmbedDone(p)
    \/ EDelayDone(p)
    \/ EInitReturned(p)
    \/ EQueryEmbedDone(p)
    \/ MsrReturned(p)
    \/ GroqDone(p)

Next == NextOriginal \/ NextEnhanced

\* overlapping calls of the original system
Spec == Init /\ [][NextOriginal]_vars

\* overlapping calls of the enhanced system
SpecEnhanced == Init /\ [][NextEnhanced]_vars

\* One caller, either system, over a directory of several files: the
\* bulk embedding passes run long enough for a run of failures.
InitBulk ==
  /\ groqKey = TRUE
  /\ openaiKey \in BOOLEAN
  /\ dir \in {DirSmall, DirBulk}
  /\ chunks = <<>>
  /\ enhancedChunks = <<>>
  /\ isReady = FALSE
  /\ isEnhancedReady = FALSE
  /\ initError = NULL
  /\ calls = [p \in Procs |-> IF p = 1 THEN IdleFrame ELSE [IdleFrame EXCEPT !.pc = "done"]]
  /\ passes = [initialize |-> 0, initializeEnhanced |-> 0]
  /\ sample = NoSample

SpecBulk == InitBulk /\ [][Next]_vars

\* Overlapping and repeated calls of the enhanced system without an embedding
\* key, over a directory of one transcript or of two.
InitEnhancedPair ==
  /\ groqKey = TRUE
  /\ openaiKey = FALSE
  /\ dir \in {DirSmall, DirPair}
  /\ chunks = <<>>
  /\ enhancedChunks = <<>>
  /\ isReady = FALSE
  /\ isEnhancedReady = FALSE
  /\ initError = NULL
  /\ calls = [p \in Procs |-> IdleFrame]
  /\ passes = [initialize |-> 0, initializeEnhanced |-> 0]
  /\ sample = NoSample

SpecEnhancedPair == InitEnhancedPair /\ [][NextEnhanced]_vars

\* Overlapping calls of the enhanced system over a transcript of more units
\* than the embedding loop takes, with an embedding key.
InitEnhancedMany ==
  /\ groqKey = TRUE
  /\ openaiKey \in BOOLEAN
  /\ dir = DirMany
  /\ chunks = <<>>  /\ enhancedChunks = <<>>
  /\ isReady = FALSE /\ isEnhancedReady = FALSE /\ initError = NULL
  /\ calls = [p \in Procs |-> IdleFrame]
  /\ passes = [initialize |-> 0, initializeEnhanced |-> 0]
  /\ sample = NoSample

SpecEnhancedMany == InitEnhancedMany /\ [][NextEnhanced]_vars

\* Both systems loaded and at rest: every .txt file of the directory is
\* chunked, the units carry the embeddings the provider gave (a vector for
\* every unit, two vectors in turn, or a vector for every other unit), and
\* the callers have their calls ahead of them.
embeddingAt(pattern, k) ==
  IF pattern = 1 THEN Some(<<1, 0>>)
  ELSE IF pattern = 2 THEN (IF k % 2 = 1 THEN Some(<<1, 0>>) ELSE Some(<<0, 1>>))
  ELSE (IF k % 2 = 1 THEN Some(<<0, 1>>) ELSE None)

embedded(corpus, pattern) ==
  AsSeq([k \in 1..Len(corpus) |-> [corpus[k] EXCEPT !.embedding = embeddingAt(pattern, k)]],
        Len(corpus))

loadedChunks(files) ==
  Concat(AsSeq([k \in 1..Len(files) |-> fixedChunksOf(files[k])], Len(files)))

loadedEnhancedChunks(files) ==
  Concat(AsSeq([k \in 1..Len(files) |-> smartChunksOf(files[k])], Len(files)))

InitAtRest ==
  /\ groqKey = TRUE
  /\ openaiKey = TRUE
  /\ dir \in {DirSmall, DirBulk}
  /\ \E pattern \in 1..3 :
       /\ chunks = embedded(loadedChunks(txtFiles(dir)), pattern)
       /\ enhancedChunks = embedded(loadedEnhancedChunks(txtFiles(dir)), pattern)
  /\ isReady = TRUE
  /\ isEnhancedReady = TRUE
  /\ initError = NULL
  /\ calls = [p \in Procs |-> IdleFrame]
  /\ passes = [initialize |-> 1, initializeEnhanced |-> 1]
  /\ sample = RetrievalLog

NextAtRest ==
  \E p \in Procs :
    \/ CallGenerateResponse(p)
    \/ InitReturned(p)
    \/ QueryEmbedDone(p)
    \/ FrcReturned(p)
    \/ CallGenerateEnhancedResponse(p)
    \/ EInitReturned(p)
    \/ EQueryEmbedDone(p)
    \/ MsrReturned(p)
    \/ GroqDone(p)

SpecAtRest == InitAtRest /\ [][NextAtRest]_vars

\* The functions applied to inputs drawn from bounded sets; nothing is
\* loaded and no call is under way.
InitFunctions ==
  /\ groqKey = TRUE
  /\ openaiKey = FALSE
  /\ dir = DirEmpty
  /\ chunks = <<>>
  /\ enhancedChunks = <<>>
  /\ isReady = FALSE
  /\ isEnhancedReady = FALSE
  /\ initError = NULL
  /\ calls = [p \in Procs |-> [IdleFrame EXCEPT !.pc = "done"]]
  /\ passes = [initialize |-> 0, initializeEnhanced |-> 0]
  /\ \/ \E a \in SampleEmbeddings, b \in SampleEmbeddings :
          sample = Sample("similarity", a, b)
     \/ \E q \in Range(KnownQueries), t \in SampleTexts :
          sample = Sample("calculateKeywordRelevance", q, t)
     \/ \E f \in SampleFiles :
          sample = Sample("createSmartChunks", f, NULL)
     \/ \E f \in SampleFiles, q \in Range(KnownQueries) :
          sample = Sample("performMultiStageRetrieval", f, q)
     \/ \E message \in SampleMessages :
          sample = Sample("POST", message, NULL)

NextFunctions ==
  \/ ApplySimilarity
  \/ ApplyKeywordRelevance
  \/ ApplyChunkers
  \/ ApplyRetrieval
  \/ ApplyPOST

SpecFunctions == InitFunctions /\ [][NextFunctions]_vars


\* ------------------------------------------------------------- properties

\* C1: the corpus-loading body of an initialisation runs at most once per
\* process, whatever the interleaving of overlapping calls: a caller that
\* arrives while a first pass is suspended at an await starts no second load.
C1_LoadsAtMostOnce ==
  /\ passes.initialize <= 1
  /\ passes.initializeEnhanced <= 1

\* C2: no retrieval reads the corpus while an initialisation pass is still
\* appending chunks or setting embeddings: whenever a call's retrieval scores
\* the corpus, no pass of any caller is under way.
C2_NoRetrievalDuringLoad ==
  [][\A p \in Procs :
       (/\ calls[p].pc \in {"frc_embedFetch", "frc_embedNoFetch",
                            "msr_embedFetch", "msr_embedNoFetch"}
        /\ calls'[p].searched)
       => \A q \in Procs : calls[q].pc \notin InitPcs \cup EInitPcs]_vars

\* C3: embeddings are append-only: an embedding that has been set is never
\* assigned again and never cleared, and the corpus list is never shortened
\* or reordered.
C3_EmbeddingsAppendOnly ==
  [][/\ Len(chunks') >= Len(chunks)
     /\ \A k \in 1..Len(chunks) :
          /\ unitKey(chunks'[k]) = unitKey(chunks[k])
          /\ chunks[k].embedding # None
             => chunks'[k].embedding = chunks[k].embedding]_vars

\* C4: once initialize has recorded a terminal error, initError never changes
\* again, and a call of initialize made after that scans no directory.
C4_ErrorIsTerminal ==
  [][/\ initError # NULL => initError' = initError
     /\ \A p \in Procs :
          (initError # NULL /\ calls[p].pc = "idle")
          => calls'[p].scans = 0]_vars

\* C5: a generateResponse call with a non-empty query that begins in the
\* terminal error state returns the 'System error' result carrying the
\* recorded initError, without an embedding call or a completion call.
C5_ErrorStateAnswersSystemError ==
  \A p \in Procs :
    (/\ calls[p].op = "generateResponse"
     /\ calls[p].pc = "done"
     /\ Len(trim(calls[p].query)) > 0
     /\ calls[p].sawError # NULL)
    => /\ calls[p].result.kind = "SystemError"
       /\ calls[p].result.error = calls[p].sawError
       /\ calls[p].embedCalls = 0
       /\ calls[p].groqCalls = 0

\* C6: in both bulk embedding passes no embedding call is issued once 5
\* calls in a row have failed (a success resets the count).
C6_BreakerStopsBothPasses ==
  \A p \in Procs :
    calls[p].pc \in {"init_embedFetch", "einit_embedFetch"}
    => calls[p].failureRun < 5

\* C7: a pass of initialize that got at least one chunk and went through
\* its embedding loop finishes with isReady = true and initError = null,
\* whatever the embedding calls returned.
C7_ChunksMeanReady ==
  [][\A p \in Procs :
       (/\ calls[p].pc \in {"init_embedFetch", "init_embedNoFetch", "init_delay"}
        /\ calls'[p].pc = "init_returned")
       => (isReady' /\ initError' = NULL)]_vars

\* C8: without the embedding credential a generateResponse call with a
\* non-empty query whose words occur in the loaded corpus goes on to the
\* keyword search instead of returning at once.
C8_LexicalWithoutEmbeddingKey ==
  [][\A p \in Procs :
       (/\ calls[p].pc = "idle"
        /\ calls'[p].op = "generateResponse"
        /\ groqKey /\ ~openaiKey
        /\ isReady /\ initError = NULL
        /\ Len(searchByKeywordsEnhanced(calls'[p].query, chunks)) > 0)
       => calls'[p].pc # "done"]_vars

\* the confidence the 0.7 / 0.5 thresholds give a lexical score alone
lexicalConfidence(query, chunk) ==
  determineConfidenceLevel(10 * keywordRelevanceOf(query, chunk).search, chunk, query)

lexicalConfidences(query, candidates) ==
  AsSeq([k \in 1..Len(candidates) |-> lexicalConfidence(query, candidates[k])],
        Len(candidates))

confidencesOf(results) ==
  AsSeq([k \in 1..Len(results) |-> results[k].confidenceLevel], Len(results))

\* C9: when a non-blank query has no embedding, or no unit of the corpus has
\* one, retrieval returns exactly the candidates of the lexical stage, in
\* their order, each with the confidence its lexical score alone gives.
C9_FallbackIsLexicalStage ==
  \A p \in Procs :
    /\ (/\ calls[p].pc = "msr_returned"
        /\ Len(trim(calls[p].query)) > 0
        /\ \/ calls[p].queryEmbedding = None
           \/ \A k \in 1..Len(enhancedChunks) : ~HasEmbedding(enhancedChunks[k]))
       => /\ resultChunks(calls[p].retrieved) = calls[p].keywordCandidates
          /\ confidencesOf(calls[p].retrieved)
               = lexicalConfidences(calls[p].query, calls[p].keywordCandidates)
    /\ (/\ calls[p].pc = "frc_returned" /\ calls[p].searched
        /\ Len(trim(calls[p].query)) > 0
        /\ \/ calls[p].queryEmbedding = None
           \/ \A k \in 1..Len(chunks) : ~HasEmbedding(chunks[k]))
       => calls[p].retrieved = searchByKeywordsEnhanced(calls[p].query, chunks)

\* C10: a generateResponse call that began without a recorded error and
\* whose retrieval scored the corpus and found no unit above a floor returns
\* the 'no relevant information' message, never 'System error', with
\* initError still null and isReady still true.
C10_NothingFoundIsNoInfo ==
  [][\A p \in Procs :
       (/\ calls[p].op = "generateResponse"
        /\ calls[p].pc = "frc_returned"
        /\ calls[p].sawError = NULL
        /\ calls[p].searched
        /\ Len(calls[p].retrieved) = 0
        /\ calls'[p].pc = "done")
       => /\ calls'[p].result.kind = "NoInfo"
          /\ initError' = NULL
          /\ isReady']_vars

\* C11: retrieval is bounded: performMultiStageRetrieval returns at most 5
\* results and findRelevantChunks at most 3 chunks, with or without an
\* embedding of the query.
C11_RetrievalIsBounded ==
  \A p \in Procs :
    /\ calls[p].pc = "msr_returned" => Len(calls[p].retrieved) <= 5
    /\ calls[p].pc = "frc_returned" => Len(calls[p].retrieved) <= 3

\* more candidates than the bound were fused, and exactly 5 are returned
C11_Truncated ==
  \E p \in Procs :
    /\ calls[p].pc = "msr_returned"
    /\ Len(calls[p].semanticCandidates) > 5
    /\ Len(calls[p].retrieved) = 5

\* the chunks of a list whose key no earlier chunk of the list has
firstOfEachKey(combined) ==
  LET IsFirst(k) == \A j \in 1..(k - 1) : unitKey(combined[j]) # unitKey(combined[k])
      Positions(n) == Filter(AsSeq([k \in 1..n |-> k], n), IsFirst)
      Chosen(pos) == AsSeq([i \in 1..Len(pos) |-> combined[pos[i]]], Len(pos))
  IN  Chosen(Positions(Len(combined)))

distinctKeys(list) ==
  \A i, j \in 1..Len(list) : unitKey(list[i]) = unitKey(list[j]) => i = j

\* C12: fusion holds each unit id (episode, index) once: the semantic
\* candidates in their order, then the lexical candidates not yet present,
\* the first occurrence of an id winning; so no id is returned twice.
C12_FusionKeepsFirstOfEachId ==
  \A p \in Procs :
    calls[p].pc = "msr_returned"
    => /\ uniqueCandidates(calls[p].semanticCandidates \o calls[p].keywordCandidates)
            = firstOfEachKey(calls[p].semanticCandidates \o calls[p].keywordCandidates)
       /\ distinctKeys(firstOfEachKey(calls[p].semanticCandidates
                                        \o calls[p].keywordCandidates))
       /\ distinctKeys(resultChunks(calls[p].retrieved))

\* a unit is a candidate of both stages, and another of the lexical one only
C12_CandidateOfBothStages ==
  \E p \in Procs :
    /\ calls[p].pc = "msr_returned"
    /\ \E i \in 1..Len(calls[p].semanticCandidates), j \in 1..Len(calls[p].keywordCandidates) :
         unitKey(calls[p].semanticCandidates[i]) = unitKey(calls[p].keywordCandidates[j])
    /\ \E j \in 1..Len(calls[p].keywordCandidates) :
         \A i \in 1..Len(calls[p].semanticCandidates) :
           unitKey(calls[p].semanticCandidates[i]) # unitKey(calls[p].keywordCandidates[j])
    /\ Len(calls[p].semanticCandidates) > 0

\* C13: retrieval returns the fused candidates whose composite score is not
\* below the final floor 0.3, best first, cut to 5: no fused candidate with
\* a composite of 0.3 or more is left out unless 5 better ones are returned.
C13_KeepsAllAtOrAboveFloor ==
  (sample.fn = "performMultiStageRetrieval" /\ sample.applied)
  => /\ \A k \in 1..Len(sample.out.results) : sample.out.results[k].score >= 3000
     /\ \A k \in 2..Len(sample.out.results) :
          sample.out.results[k - 1].score >= sample.out.results[k].score
     /\ \/ Len(sample.out.results) = 5
        \/ \A c \in Range(sample.out.keywordCandidates) :
             calculateEnhancedRelevance(sample.y, c, None) >= 3000
             => c \in Range(resultChunks(sample.out.results))

\* C14: a returned candidate is 'high' exactly when its composite score is
\* above 0.7 and it shares a topic with the query; otherwise 'medium'
\* exactly when the score is above 0.5; otherwise 'low'.
C14_ConfidenceFromScoreAndTopics ==
  \A p \in Procs :
    calls[p].pc = "msr_returned"
    => \A k \in 1..Len(calls[p].retrieved) :
         LET r == calls[p].retrieved[k]
             shared == Range(r.chunk.topics) \cap Range(extractTopics(calls[p].query))
         IN  /\ r.confidenceLevel = "high" <=> (r.score > 7000 /\ shared # {})
             /\ r.confidenceLevel = "medium"
                  <=> (r.score > 5000 /\ ~(r.score > 7000 /\ shared # {}))
             /\ r.confidenceLevel = "low" <=> r.score <= 5000

\* candidates of two levels are returned together, one of them 'high'
C14_HighAndLowerReturned ==
  \E p \in Procs :
    /\ calls[p].pc = "msr_returned"
    /\ \E k \in 1..Len(calls[p].retrieved) : calls[p].retrieved[k].confidenceLevel = "high"
    /\ \E k \in 1..Len(calls[p].retrieved) : calls[p].retrieved[k].confidenceLevel # "high"

\* C15: returned candidates with equal composite scores stand in the order
\* in which their units were loaded into the corpus, whichever stage produced
\* them.
C15_TiesInCorpusOrder ==
  (sample.fn = "performMultiStageRetrieval" /\ sample.applied)
  => \A k, l \in 1..Len(sample.out.results) :
       (k < l /\ sample.out.results[k].score = sample.out.results[l].score)
       => sample.out.results[k].chunk.index < sample.out.results[l].chunk.index

\* C17: when the query has a topic, every candidate of the semantic and of
\* the lexical stage, and so every candidate returned, shares a topic with
\* the query; when it has none, both stages range over the whole corpus.
C17_CandidatesShareQueryTopic ==
  \A p \in Procs :
    calls[p].pc = "msr_returned"
    => IF extractTopics(calls[p].query) # <<>>
       THEN \A c \in Range(calls[p].semanticCandidates)
                       \cup Range(calls[p].keywordCandidates)
                       \cup Range(resultChunks(calls[p].retrieved)) :
              Range(c.topics) \cap Range(extractTopics(calls[p].query)) # {}
       ELSE /\ calls[p].keywordCandidates
                 = enhancedKeywordSearch(calls[p].query, enhancedChunks)
            /\ calls[p].semanticCandidates
                 = semanticStage(calls[p].queryEmbedding, enhancedChunks)

\* a query with a topic returns a candidate while a unit of the corpus that
\* has an embedding shares no topic with it
C17_UnitLeftOutByTopic ==
  \E p \in Procs :
    /\ calls[p].pc = "msr_returned"
    /\ extractTopics(calls[p].query) # <<>>
    /\ Len(calls[p].retrieved) > 0
    /\ \E k \in 1..Len(enhancedChunks) :
         /\ HasEmbedding(enhancedChunks[k])
         /\ Range(enhancedChunks[k].topics) \cap Range(extractTopics(calls[p].query)) = {}

\* C18: for a query without a token longer than 2 characters each lexical
\* scorer, calculateKeywordRelevance and calculateContentRelevance, returns
\* exactly 0 for every text, also when the text contains the whole query.
C18_NoLongTokenScoresZero ==
  (/\ sample.fn = "calculateKeywordRelevance" /\ sample.applied
   /\ queryWordsOf(sample.x) = <<>>)
  => /\ sample.out.calculateKeywordRelevance = 0
     /\ sample.out.calculateContentRelevance = 0

\* an embedding that is missing, empty, or of magnitude 0
isDegenerate(e) == e = None \/ \A i \in 1..Len(e[1]) : e[1][i] = 0

\* C19: similarity and cosineSimilarity return 0, and never the NaN of a
\* division by zero, when a vector is absent, the dimensions differ, a
\* vector is empty, or a vector has magnitude 0.
C19_DegenerateVectorsScoreZero ==
  (/\ sample.fn = "similarity" /\ sample.applied
   /\ \/ isDegenerate(sample.x)
      \/ isDegenerate(sample.y)
      \/ Len(sample.x[1]) # Len(sample.y[1]))
  => /\ sample.out.similarity = 0
     /\ sample.out.cosineSimilarity = 0

\* both scorers were applied to a vector of magnitude 0 and one of the same
\* dimension that is not
C19_ZeroMagnitudeApplied ==
  /\ sample.fn = "similarity" /\ sample.applied
  /\ sample.x = Some(<<0, 0>>) /\ sample.y = Some(<<3, 4>>)
  /\ sample.out.similarity = 0

\* C20: every unit a chunker emits has a text of at least 50 characters:
\* the units kept whole, the units flushed from the sentence buffer, and
\* the units whose speaker prefix was stripped.
C20_UnitsAtLeastMinimum ==
  (sample.fn = "createSmartChunks" /\ sample.applied)
  => /\ \A k \in 1..Len(sample.out.smart) : Len(sample.out.smart[k].text) >= 50
     /\ \A k \in 1..Len(sample.out.fixed) : Len(sample.out.fixed[k].text) >= 50

C21_UnitsAtMostUpperBound ==
  (sample.fn = "createSmartChunks" /\ sample.applied)
  => \A k \in 1..Len(sample.out.smart) : Len(sample.out.smart[k].text) <= 800

\* C22: the query endpoint passes a message on to generateResponse exactly
\* when it is a string whose trimmed text has 1 to 500 characters, and then
\* passes the trimmed text; a longer message, an empty or blank one and one
\* that is not a string are answered with status 400 and nothing is called.
C22_EndpointValidatesMessage ==
  (sample.fn = "POST" /\ sample.applied)
  => \A r \in {sample.out.route, sample.out.part_002} :
       IF /\ sample.x.kind = "string"
          /\ Len(trim(sample.x.text)) >= 1
          /\ Len(trim(sample.x.text)) <= 500
       THEN r.called /\ r.passed = trim(sample.x.text)
       ELSE r.status = 400 /\ ~r.called

\* C23: getSystemStatus has no side effects: no step of a getSystemStatus
\* call changes the corpus, an embedding, isReady, isEnhancedReady or
\* initError, and none scans the directory or asks for an embedding.
C23_StatusHasNoSideEffects ==
  [][\A p \in Procs :
       (calls'[p].op = "getSystemStatus" /\ calls'[p] # calls[p])
       => /\ chunks' = chunks
          /\ enhancedChunks' = enhancedChunks
          /\ isReady' = isReady
          /\ isEnhancedReady' = isEnhancedReady
          /\ initError' = initError
          /\ calls'[p].scans = calls[p].scans
          /\ calls'[p].embedCalls = calls[p].embedCalls]_vars

\* the strings a query call returns
StringResults ==
  {"PleaseAsk", "NoGroqKey", "NoOpenAIKey", "SystemError", "NoInfo", "NotReady",
   "GroqFailed", "Answer"}

\* C24: whatever fails, the file system, the embedding provider or the
\* completion provider, a generateResponse or generateEnhancedResponse call
\* that has ended has returned one of its strings; and an embedding that
\* could not be had is absent, in a call and on a unit.
C24_CallsEndWithAString ==
  /\ \A p \in Procs :
       /\ (calls[p].pc = "done"
           /\ calls[p].op \in {"generateResponse", "generateEnhancedResponse"})
          => calls[p].result.kind \in StringResults
       /\ calls[p].queryEmbedding \in {None} \cup {Some(v) : v \in Vectors}
  /\ \A c \in Range(chunks) \cup Range(enhancedChunks) :
       c.embedding \in {None} \cup {Some(v) : v \in Vectors}

\* a call has ended although a file could not be read, an embedding could
\* not be had and the completion request failed
C24_EndedAfterFailures ==
  \E p \in Procs :
    /\ calls[p].pc = "done"
    /\ calls[p].op = "generateResponse"
    /\ calls[p].result.kind = "GroqFailed"
    /\ dir = DirBulk
    /\ Len(chunks) < 6
    /\ \E k \in 1..Len(chunks) : ~HasEmbedding(chunks[k])

\* the positions of a call inside findRelevantChunks, after the guard of
\* initialize, and inside performMultiStageRetrieval
RetrievalPcs ==
  {"frc_embedFetch", "frc_embedNoFetch", "frc_returned",
   "msr_embedFetch", "msr_embedNoFetch", "msr_returned"}

\* C25: once the system is ready no step of a retrieval call changes shared
\* state: the two corpus lists with every unit's embedding and topics,
\* isReady, isEnhancedReady and initError stay as they are, whatever other
\* query is suspended or has returned meanwhile.
C25_RetrievalLeavesSharedState ==
  [][\A p \in Procs :
       (/\ calls[p].pc \in RetrievalPcs \/ calls'[p].pc \in RetrievalPcs
        /\ calls'[p] # calls[p])
       => /\ chunks' = chunks
          /\ enhancedChunks' = enhancedChunks
          /\ isReady' = isReady
          /\ isEnhancedReady' = isEnhancedReady
          /\ initError' = initError]_vars

\* a retrieval call has returned candidates while the other caller is
\* suspended in its own retrieval
C25_ReturnedBesideSuspendedCall ==
  /\ calls[1].pc = "msr_returned"
  /\ Len(calls[1].retrieved) > 0
  /\ calls[2].pc = "frc_embedFetch"

\* C26: in every state no two units of chunks, and no two units of
\* enhancedChunks, have the same (episode, index) pair, also after
\* overlapping or repeated initialisation.
C26_UnitKeysAreUnique ==
  /\ \A i, j \in 1..Len(chunks) : unitKey(chunks[i]) = unitKey(chunks[j]) => i = j
  /\ \A i, j \in 1..Len(enhancedChunks) :
       unitKey(enhancedChunks[i]) = unitKey(enhancedChunks[j]) => i = j

\* an initializeEnhanced pass has ended without making the system ready, and
\* no pass is under way
enhancedLoadFailed ==
  /\ ~isEnhancedReady
  /\ passes.initializeEnhanced > 0
  /\ \A q \in Procs : calls[q].pc \notin EInitPcs

\* C27: after initializeEnhanced has failed hard a later call of it returns
\* at once: it starts no further pass, scans no directory and appends
\* nothing, so enhancedChunks never holds more than one load of the
\* directory.
C27_FailedEnhancedLoadIsFinal ==
  [][\A p \in Procs :
       (enhancedLoadFailed /\ calls[p].pc = "idle" /\ calls'[p].pc # "idle")
       => /\ passes'.initializeEnhanced = passes.initializeEnhanced
          /\ calls'[p].scans = calls[p].scans
          /\ calls'[p].pc \notin EInitPcs]_vars

\* the list positions, counted from 0, of the units that carry an embedding
embeddedPositions(list) == {k - 1 : k \in {j \in 1..Len(list) : list[j].embedding # None}}

C29_ReadyAndErrorExclusive ==
  [][/\ ~(isReady' /\ initError' # NULL)
     /\ isReady => isReady'
     /\ initError # NULL => initError' # NULL]_vars

\* the system the call's operation queries is ready
readyFor(op) == IF op = "generateEnhancedResponse" THEN isEnhancedReady ELSE isReady

\* C30: within one query call the completion provider is called at most
\* once, only after the call's retrieval has finished and returned at least
\* one candidate; an empty query, no candidate or a system that is not ready
\* never leads to a completion call.
C30_CompletionOnlyAfterCandidates ==
  [][\A p \in Procs :
       /\ calls'[p].groqCalls <= 1
       /\ calls'[p].groqCalls > calls[p].groqCalls
          => /\ calls[p].pc \in {"frc_returned", "msr_returned"}
             /\ calls[p].searched
             /\ Len(calls[p].retrieved) > 0
             /\ Len(trim(calls[p].query)) > 0
             /\ readyFor(calls[p].op)]_vars

=============================================================================
